---- MODULE Spec2Model ----
(***************************************************************************)
(* Dither Creator: the polygon-capture state machine of SegmentationCanvas, *)
(* the segment collection of App, and the SVG export generator of           *)
(* ExportControls.                                                           *)
(*                                                                           *)
(* Two specifications share the same handlers:                               *)
(*   SpecCanvas  the SegmentationCanvas component mounted on its own, with   *)
(*               onSegmentComplete recorded (as its unit tests mount it);    *)
(*   Spec        the App: canvas, segment collection, pattern and offset     *)
(*               assignment, and export.                                     *)
(***************************************************************************)
EXTENDS Integers, Sequences, FiniteSets, TLC

VARIABLES
  imageData,        \* App segmentationState.imageData ("null" or a data URL)
  imageDimensions,  \* App segmentationState.imageDimensions
  currentSegment,   \* App segmentationState.currentSegment (canvas prop)
  segments,         \* App segmentationState.segments
  anchorPoints,     \* SegmentationCanvas useState anchorPoints
  isComplete,       \* SegmentationCanvas useState isComplete
  rect,             \* layout: overlayCanvas.getBoundingClientRect()
  calls,            \* onSegmentComplete invocations of the most recent handler
  ev,               \* the most recent event and the state it was delivered in
  clickedSince,     \* canvas points clicked since currentSegment last changed
  gesture,          \* progress of a physical double-click (click, click, dblclick)
  saved,            \* saveAs(blob, name) calls of the most recent export handler
  preview,          \* ExportControls useState showPreview, previewMode, previewSVG
  jobs,             \* export handlers awaiting mask decodes (pending promises)
  settled,          \* the generateSVG calls finished by the most recent handler
  hoveredSegment,   \* SegmentationCanvas prop hoveredSegment
  redrawTimer,      \* pending setTimeout timers of the debounced redraw effect
  timeoutId,        \* the timer the cleanup of the redraw effect will clear
  maskDecodes,      \* mask images of redraw passes whose onload has not fired
  surface,          \* draws on the display canvas since its last clearRect
  uploadedSVGs,     \* App useState uploadedSVGs
  selectedSVG,      \* App useState selectedSVG (the id of the document)
  activeMode,       \* App useState activeMode
  alerts,           \* window.alert calls of the most recent handler
  readers,          \* FileReader reads whose onload has not fired
  pathPatterns,     \* SVGPatternEditor useState pathPatterns, in key order
  pathOffsets,      \* SVGPatternEditor useState pathOffsets, in key order
  applied           \* the most recent application of a pure function

appVars    == <<imageData, imageDimensions, currentSegment, segments>>
canvasVars == <<anchorPoints, isComplete, rect>>
histVars   == <<calls, ev, clickedSince, gesture>>
outVars    == <<saved, preview>>
exportVars == <<jobs, settled>>
redrawVars == <<hoveredSegment, redrawTimer, timeoutId, maskDecodes, surface>>
editorVars == <<pathPatterns, pathOffsets>>
uploadVars == <<uploadedSVGs, selectedSVG, activeMode, alerts, readers, pathPatterns,
                pathOffsets>>
vars       == <<imageData, imageDimensions, currentSegment, segments,
                anchorPoints, isComplete, rect, calls, ev, clickedSince,
                gesture, saved, preview, jobs, settled, hoveredSegment, redrawTimer,
                timeoutId,
                maskDecodes, surface, uploadedSVGs, selectedSVG, activeMode, alerts,
                readers, pathPatterns, pathOffsets, applied>>

(***************************************************************************)
(* Bounds and input sets                                                   *)
(***************************************************************************)
MaxPoints == 5

\* export handlers suspended at the same time
MaxJobs == 2

Null == "null"

\* selectedSVG is null
NoSelection == 0
NoTimer == 0
Undefined == "undefined"
NoOffset == <<>>

\* segment types offered by the type selector in this model
SegmentTypes == {"hair", "face"}

\* uploaded image sizes: one within the display bound, one above it
ImageSizes == {[width |-> 400, height |-> 300], [width |-> 1600, height |-> 1200]}

\* canvas pixels per CSS pixel of the laid-out overlay (maxWidth: 100%)
Shrinks == {1, 2}

\* pointer positions (clientX, clientY) of clicks on the overlay
Positions == {<<0, 0>>, <<9, 12>>, <<20, 12>>}

(***************************************************************************)
(* SegmentationCanvas                                                      *)
(***************************************************************************)
maxWidth == 800
maxHeight == 600
CloseRadius == 15

\* mutant: only the width is limited
DisplaySize_WidthOnly(dim) ==
  IF dim.width > maxWidth
    THEN [width |-> maxWidth, height |-> (dim.height * maxWidth) \div dim.width]
    ELSE [width |-> dim.width, height |-> dim.height]

\* canvas initialisation effect: display size of the canvas and the overlay.
\* displayWidth and displayHeight are fractions (numerator over den); the
\* width and height attributes of a canvas keep their whole part.
DisplaySize(dim) ==
  LET wide == dim.width > maxWidth
      w1 == IF wide THEN maxWidth ELSE dim.width
      h1 == IF wide THEN dim.height * maxWidth ELSE dim.height
      den == IF wide THEN dim.width ELSE 1
      high == h1 > maxHeight * den
  IN  [width |-> IF high THEN (w1 * maxHeight * den) \div h1 ELSE w1,
       height |-> IF high THEN maxHeight ELSE h1 \div den]

CanvasSize == DisplaySize(imageDimensions)

\* the overlay's bounding client rect for a given shrink factor
LayoutRect(size, s) ==
  [left |-> 0, top |-> 0, width |-> size.width \div s, height |-> size.height \div s]

\* handleCanvasClick: pointer position to canvas pixel grid
MapCoord(client, origin, extent, canvasExtent) ==
  ((client - origin) * canvasExtent) \div extent

Point(x, y) == [x |-> x, y |-> y, type |-> "include"]

MapClick(p) ==
  Point(MapCoord(p[1], rect.left, rect.width, CanvasSize.width),
        MapCoord(p[2], rect.top, rect.height, CanvasSize.height))

\* mutant: the radius test made inclusive
NearFirst_Inclusive(pt, first) ==
  (pt.x - first.x) * (pt.x - first.x) + (pt.y - first.y) * (pt.y - first.y)
     <= 15 * 15

\* Math.sqrt(dx ** 2 + dy ** 2) < 15, on integers
NearFirst(pt, first) ==
  (pt.x - first.x) * (pt.x - first.x) + (pt.y - first.y) * (pt.y - first.y)
     < CloseRadius * CloseRadius

Cmd(c, x, y) == [cmd |-> c, x |-> x, y |-> y]

\* mutant: without the guard on the length of the list
generateSVGPathFromPolygon_Unguarded(points) ==
  [i \in 1..Len(points) |->
     Cmd(IF i = 1 THEN "M" ELSE "L", points[i].x, points[i].y)]
  \o <<Cmd("Z", 0, 0)>>

generateSVGPathFromPolygon(points) ==
  IF Len(points) < 3
    THEN <<Cmd("M", 0, 0), Cmd("Z", 0, 0)>>
    ELSE [i \in 1..Len(points) |->
            Cmd(IF i = 1 THEN "M" ELSE "L", points[i].x, points[i].y)]
         \o <<Cmd("Z", 0, 0)>>

\* the mask bitmap is determined by the canvas size and the filled polygon
generateMaskFromPolygon(points) ==
  [width |-> CanvasSize.width, height |-> CanvasSize.height,
   fill |-> [i \in 1..Len(points) |-> <<points[i].x, points[i].y>>]]

\* mutant: the name is the id as it is
Capitalize_Identity(id) == id

\* currentSegment.charAt(0).toUpperCase() + currentSegment.slice(1)
Capitalize(id) ==
  CASE id = "hair" -> "Hair"
    [] id = "face" -> "Face"
    [] id = "body" -> "Body"
    [] OTHER -> id

\* The handlers are closures over (currentSegment, anchorPoints): each returns
\* the state React commits after the batched setState calls of one event.
\* pending is the isComplete value queued by the caller's setIsComplete(true).
Outcome(cs, pts, ic) == [calls |-> cs, anchorPoints |-> pts, isComplete |-> ic]

\* mutant: the finalize step forgets setAnchorPoints([])
generateSegment_KeepsPoints(pending) ==
  IF currentSegment = Null \/ Len(anchorPoints) < 3
    THEN Outcome(<<>>, anchorPoints, pending)
    ELSE Outcome(<<[id |-> currentSegment,
                    name |-> Capitalize(currentSegment),
                    mask |-> generateMaskFromPolygon(anchorPoints),
                    svgPath |-> generateSVGPathFromPolygon(anchorPoints),
                    ditherPattern |-> Undefined,
                    patternOffset |-> NoOffset]>>,
                 anchorPoints, FALSE)

\* mutant: the finalize step emits the mask without the vector path
generateSegment_MaskOnly(pending) ==
  IF currentSegment = Null \/ Len(anchorPoints) < 3
    THEN Outcome(<<>>, anchorPoints, pending)
    ELSE Outcome(<<[id |-> currentSegment,
                    name |-> Capitalize(currentSegment),
                    mask |-> generateMaskFromPolygon(anchorPoints),
                    svgPath |-> <<>>,
                    ditherPattern |-> Undefined,
                    patternOffset |-> NoOffset]>>,
                 <<>>, FALSE)

\* mutant: the finalize step leaves the completion flag set
generateSegment_StaysComplete(pending) ==
  IF currentSegment = Null \/ Len(anchorPoints) < 3
    THEN Outcome(<<>>, anchorPoints, pending)
    ELSE Outcome(<<[id |-> currentSegment,
                    name |-> Capitalize(currentSegment),
                    mask |-> generateMaskFromPolygon(anchorPoints),
                    svgPath |-> generateSVGPathFromPolygon(anchorPoints),
                    ditherPattern |-> Undefined,
                    patternOffset |-> NoOffset]>>,
                 <<>>, pending)

generateSegmentFromPolygon(pending) ==
  IF currentSegment = Null \/ Len(anchorPoints) < 3
    THEN Outcome(<<>>, anchorPoints, pending)
    ELSE Outcome(<<[id |-> currentSegment,
                    name |-> Capitalize(currentSegment),
                    mask |-> generateMaskFromPolygon(anchorPoints),
                    svgPath |-> generateSVGPathFromPolygon(anchorPoints),
                    ditherPattern |-> Undefined,
                    patternOffset |-> NoOffset]>>,
                 <<>>, FALSE)

handleCanvasClick(pt) ==
  IF currentSegment = Null \/ isComplete
    THEN Outcome(<<>>, anchorPoints, isComplete)
    ELSE IF Len(anchorPoints) >= 3 /\ NearFirst(pt, anchorPoints[1])
           THEN generateSegmentFromPolygon(TRUE)
           ELSE Outcome(<<>>, Append(anchorPoints, pt), isComplete)

\* mutant: the double-click handler without its minimum-vertex guard
handleDoubleClick_NoMinimum ==
  IF currentSegment = Null
    THEN Outcome(<<>>, anchorPoints, isComplete)
    ELSE generateSegmentFromPolygon(TRUE)

handleDoubleClick ==
  IF currentSegment = Null \/ Len(anchorPoints) < 3
    THEN Outcome(<<>>, anchorPoints, isComplete)
    ELSE generateSegmentFromPolygon(TRUE)

\* mutant: the reset effect leaves the anchor points in place
ResetPoints_Kept == anchorPoints

\* reset effect on [currentSegment]: setAnchorPoints([])
ResetPoints == <<>>

(***************************************************************************)
(* Event records                                                           *)
(***************************************************************************)
NoClient == <<-1, -1>>
NoPreview == [show |-> FALSE, mode |-> "all", svg |-> <<>>]
NoApplication == [fn |-> "none", arg |-> <<>>, result |-> <<>>]
IdleGesture == [phase |-> 0, pos |-> <<0, 0>>, base |-> <<>>, calls |-> <<>>]

Event(op, client, arg) ==
  [op |-> op, client |-> client, arg |-> arg,
   preSegment |-> currentSegment, prePoints |-> anchorPoints,
   preClicked |-> clickedSince, preSegments |-> segments]

Commit(out) ==
  /\ anchorPoints' = out.anchorPoints
  /\ isComplete' = out.isComplete
  /\ calls' = out.calls

\* a click would grow the list beyond the model's bound
WithinBound(pt) == Len(handleCanvasClick(pt).anchorPoints) <= MaxPoints

(***************************************************************************)
(* SpecCanvas: the component on its own                                    *)
(***************************************************************************)
\* the steps of the component, whatever the parent does with the callback
SelectStep(t) ==
  /\ gesture.phase = 0
  /\ ev' = Event("select", NoClient, t)
  /\ currentSegment' = t
  /\ IF t # currentSegment
       THEN /\ anchorPoints' = ResetPoints
            /\ isComplete' = FALSE
            /\ clickedSince' = {}
       ELSE UNCHANGED <<anchorPoints, isComplete, clickedSince>>
  /\ calls' = <<>>
  /\ gesture' = IdleGesture
  /\ saved' = <<>>
  /\ UNCHANGED <<imageData, imageDimensions, rect, preview>>
  /\ settled' = <<>>
  /\ UNCHANGED <<jobs, redrawVars, uploadVars, applied>>

ClickStep(p) ==
  /\ gesture.phase = 0
  /\ WithinBound(MapClick(p))
  /\ ev' = Event("click", p, Null)
  /\ Commit(handleCanvasClick(MapClick(p)))
  /\ clickedSince' = clickedSince \cup {MapClick(p)}
  /\ gesture' = IdleGesture
  /\ saved' = <<>>
  /\ UNCHANGED <<imageData, imageDimensions, currentSegment, rect, preview>>
  /\ settled' = <<>>
  /\ UNCHANGED <<jobs, redrawVars, uploadVars, applied>>

DoubleClickStep(p) ==
  /\ gesture.phase = 0
  /\ ev' = Event("dblclick", p, Null)
  /\ Commit(handleDoubleClick)
  /\ gesture' = IdleGesture
  /\ saved' = <<>>
  /\ UNCHANGED <<imageData, imageDimensions, currentSegment, rect,
                 clickedSince, preview>>
  /\ settled' = <<>>
  /\ UNCHANGED <<jobs, redrawVars, uploadVars, applied>>

CanvasSelect(t) == SelectStep(t) /\ UNCHANGED segments

CanvasClick(p) == ClickStep(p) /\ UNCHANGED segments

CanvasDoubleClick(p) == DoubleClickStep(p) /\ UNCHANGED segments

\* a physical double-click at p: the browser delivers click, click, dblclick
GestureClick1(p) ==
  /\ gesture.phase = 0
  /\ currentSegment # Null
  /\ WithinBound(MapClick(p))
  /\ ev' = Event("gesture-click1", p, Null)
  /\ Commit(handleCanvasClick(MapClick(p)))
  /\ clickedSince' = clickedSince \cup {MapClick(p)}
  /\ gesture' = [phase |-> 1, pos |-> p, base |-> anchorPoints,
                 calls |-> handleCanvasClick(MapClick(p)).calls]
  /\ UNCHANGED <<appVars, rect, outVars>>
  /\ settled' = <<>>
  /\ UNCHANGED <<jobs, redrawVars, uploadVars, applied>>

GestureClick2 ==
  /\ gesture.phase = 1
  /\ WithinBound(MapClick(gesture.pos))
  /\ ev' = Event("gesture-click2", gesture.pos, Null)
  /\ Commit(handleCanvasClick(MapClick(gesture.pos)))
  /\ clickedSince' = clickedSince \cup {MapClick(gesture.pos)}
  /\ gesture' = [gesture EXCEPT !.phase = 2,
                   !.calls = @ \o handleCanvasClick(MapClick(gesture.pos)).calls]
  /\ UNCHANGED <<appVars, rect, outVars>>
  /\ settled' = <<>>
  /\ UNCHANGED <<jobs, redrawVars, uploadVars, applied>>

GestureDblClick ==
  /\ gesture.phase = 2
  /\ ev' = Event("gesture-dblclick", gesture.pos, Null)
  /\ Commit(handleDoubleClick)
  /\ gesture' = [gesture EXCEPT !.phase = 0, !.calls = @ \o handleDoubleClick.calls]
  /\ UNCHANGED <<appVars, rect, clickedSince, outVars>>
  /\ settled' = <<>>
  /\ UNCHANGED <<jobs, redrawVars, uploadVars, applied>>

InitCanvas ==
  /\ imageData = "data:image/png"
  /\ imageDimensions \in ImageSizes
  /\ currentSegment \in SegmentTypes \cup {Null}
  /\ segments = <<>>
  /\ anchorPoints = <<>>
  /\ isComplete = FALSE
  /\ rect \in {LayoutRect(DisplaySize(imageDimensions), s) : s \in Shrinks}
  /\ calls = <<>>
  /\ ev = [op |-> "mount", client |-> NoClient, arg |-> Null, preSegment |-> Null,
           prePoints |-> <<>>, preClicked |-> {}, preSegments |-> <<>>]
  /\ clickedSince = {}
  /\ gesture = IdleGesture
  /\ saved = <<>>
  /\ preview = NoPreview
  /\ jobs = <<>>
  /\ settled = <<>>
  /\ hoveredSegment = Null
  /\ redrawTimer = {}
  /\ timeoutId = NoTimer
  /\ maskDecodes = {}
  /\ surface = <<>>
  /\ uploadedSVGs = <<>>
  /\ selectedSVG = NoSelection
  /\ activeMode = "create"
  /\ alerts = <<>>
  /\ readers = {}
  /\ pathPatterns = <<>>
  /\ pathOffsets = <<>>
  /\ applied = NoApplication

NextCanvas ==
  \/ \E t \in SegmentTypes \cup {Null} : CanvasSelect(t)
  \/ \E p \in Positions : CanvasClick(p)
  \/ \E p \in Positions : CanvasDoubleClick(p)
  \/ \E p \in Positions : GestureClick1(p)
  \/ GestureClick2
  \/ GestureDblClick

SpecCanvas == InitCanvas /\ [][NextCanvas]_vars

(***************************************************************************)
(* App: the segment collection                                             *)
(***************************************************************************)
\* patterns offered by DitherPatterns in this model, offsets typed into it
Patterns == {"dots", "solid"}
OffsetValues == {7}
Fields == {"x", "y"}

\* the App mounts the canvas 1:1 and is clicked at one pointer position
AppShrinks == {1}
AppPositions == {<<20, 12>>}

NoRect == [left |-> 0, top |-> 0, width |-> 0, height |-> 0]

HasPattern(s) == s.ditherPattern # Undefined

\* mutant: a re-segmented id keeps the pattern and offset of its prior entry
handleSegmentComplete_Merged(prev, segment) ==
  LET old == SelectSeq(prev, LAMBDA s : s.id = segment.id)
  IN  SelectSeq(prev, LAMBDA s : s.id # segment.id)
        \o <<IF old = <<>> THEN segment
             ELSE [segment EXCEPT !.ditherPattern = old[1].ditherPattern,
                                  !.patternOffset = old[1].patternOffset]>>

handleSegmentComplete(prev, segment) ==
  SelectSeq(prev, LAMBDA s : s.id # segment.id) \o <<segment>>

\* mutant: the patterned segment is re-appended, as a completion would
handleDitherPatternChange_Reappend(prev, segmentId, patternId) ==
  LET old == SelectSeq(prev, LAMBDA s : s.id = segmentId)
  IN  IF old = <<>> THEN prev
      ELSE SelectSeq(prev, LAMBDA s : s.id # segmentId)
             \o <<[old[1] EXCEPT !.ditherPattern = patternId]>>

handleDitherPatternChange(prev, segmentId, patternId) ==
  [i \in 1..Len(prev) |->
     IF prev[i].id = segmentId
       THEN [prev[i] EXCEPT !.ditherPattern = patternId]
       ELSE prev[i]]

handlePatternOffsetChange(prev, segmentId, offset) ==
  [i \in 1..Len(prev) |->
     IF prev[i].id = segmentId
       THEN [prev[i] EXCEPT !.patternOffset = <<offset>>]
       ELSE prev[i]]

\* segment.patternOffset || { x: 0, y: 0 }
OffsetOrZero(s) ==
  IF s.patternOffset = NoOffset THEN [x |-> 0, y |-> 0] ELSE s.patternOffset[1]

\* DitherPatterns.handleOffsetChange: the offset passed to onPatternOffsetChange
newOffset(segs, segmentId, field, value) ==
  LET found == SelectSeq(segs, LAMBDA s : s.id = segmentId)
      currentOffset == IF found = <<>> THEN [x |-> 0, y |-> 0]
                       ELSE OffsetOrZero(found[1])
  IN  [currentOffset EXCEPT ![field] = value]

\* the parent's onSegmentComplete applied to the calls of one handler
Deliver(prev, cs) ==
  IF cs = <<>> THEN prev ELSE handleSegmentComplete(prev, cs[1])

(***************************************************************************)
(* ExportControls: the export generator                                    *)
(***************************************************************************)
Max(a, b) == IF a >= b THEN a ELSE b
Min(a, b) == IF a <= b THEN a ELSE b

\* a size in document units, as an exact fraction
Frac(n, d) == [num |-> n, den |-> d]

basePatternSize == 128

\* Math.round(basePatternSize * Math.min(maxImageDimension / 400, 3))
\* mutant: the scale factor without its cap
patternSize_Uncapped(dim) ==
  (2 * basePatternSize * Max(dim.width, dim.height) + 400) \div (2 * 400)

patternSize(dim) ==
  LET maxImageDimension == Max(dim.width, dim.height)
  IN  IF maxImageDimension >= 3 * 400
        THEN basePatternSize * 3
        ELSE (2 * basePatternSize * maxImageDimension + 400) \div (2 * 400)

\* mutant: the dot tile is not clamped
dotSize_Unclamped(dim) == Frac(Min(dim.width, dim.height), 15)

\* Math.max(12, Math.min(48, Math.min(width, height) / 15))
dotSize(dim) ==
  Frac(Max(12 * 15, Min(48 * 15, Min(dim.width, dim.height))), 15)

ImagePatterns == {"dithered_marble_1", "dithered_marble_2", "dithered_nest"}

\* mutant: the dots tile is drawn with a <path> element
generatePatternDef_PathTile(patternId, offset, dim) ==
  LET size == CASE patternId \in ImagePatterns -> Frac(patternSize(dim), 1)
                [] patternId = "solid" -> Frac(1, 1)
                [] OTHER -> dotSize(dim)
      tile == CASE patternId \in ImagePatterns -> "image"
                [] patternId = "dots" -> "path"
                [] OTHER -> "rect"
  IN  [id |-> patternId, width |-> size, height |-> size,
       translate |-> <<offset.x, offset.y>>, tile |-> tile]

generatePatternDef(patternId, offset, dim) ==
  LET size == CASE patternId \in ImagePatterns -> Frac(patternSize(dim), 1)
                [] patternId = "solid" -> Frac(1, 1)
                [] OTHER -> dotSize(dim)
      tile == CASE patternId \in ImagePatterns -> "image"
                [] patternId = "dots" -> "circle"
                [] OTHER -> "rect"
  IN  [id |-> patternId, width |-> size, height |-> size,
       translate |-> <<offset.x, offset.y>>, tile |-> tile]

\* the colour map of the display canvas
canvasGetSegmentColor(segmentId) ==
  CASE segmentId = "hair" -> "#ff6b6b"
    [] segmentId = "face" -> "#4ecdc4"
    [] segmentId = "body" -> "#45b7d1"
    [] segmentId = "arms" -> "#96ceb4"
    [] segmentId = "legs" -> "#feca57"
    [] segmentId = "accessories" -> "#ff9ff3"
    [] segmentId = "background" -> "#a4b0be"
    [] OTHER -> "#888"

\* the colour map of the export
getSegmentColor(segmentId) ==
  CASE segmentId = "hair" -> "#ff6b6b"
    [] segmentId = "face" -> "#4ecdc4"
    [] segmentId = "body" -> "#45b7d1"
    [] segmentId = "arms" -> "#96ceb4"
    [] segmentId = "legs" -> "#feca57"
    [] segmentId = "accessories" -> "#ff9ff3"
    [] segmentId = "background" -> "#a4b0be"
    [] OTHER -> "#888"

Map(f(_), seq) == [i \in 1..Len(seq) |-> f(seq[i])]

\* segment.ditherPattern || 'solid'
fillPattern(s) == IF HasPattern(s) THEN s.ditherPattern ELSE "solid"

\* an absent (or empty) svgPath; a promise that has not settled
NoPath == <<>>
Pending == <<>>

\* 'M0,0 Z'
DegeneratePath == <<Cmd("M", 0, 0), Cmd("Z", 0, 0)>>

QCmd(cx, cy, x, y) == [cmd |-> "Q", cx |-> cx, cy |-> cy, x |-> x, y |-> y]

\* twice the signed area of the polygon a mask was filled with
Area2(fill) ==
  LET n == Len(fill)
      term(i) == LET j == IF i = n THEN 1 ELSE i + 1
                 IN  fill[i][1] * fill[j][2] - fill[j][1] * fill[i][2]
      sum[i \in 0..n] == IF i = 0 THEN 0 ELSE sum[i - 1] + term(i)
  IN  sum[n]

\* generatePathFromMask, img.onload: the edge pixels found by the scan of
\* rows and columns 1 .. size-2, as their bounding box (<<>> when the mask
\* has no opaque pixel: a polygon without area fills nothing). The raster
\* is abstracted to the bounding box of the polygon's vertices.
edgePixels(mask, dim) ==
  IF Len(mask.fill) < 3 \/ Area2(mask.fill) = 0
    THEN <<>>
    ELSE LET xs == {mask.fill[i][1] : i \in 1..Len(mask.fill)}
             ys == {mask.fill[i][2] : i \in 1..Len(mask.fill)}
             lo(S) == CHOOSE v \in S : \A w \in S : v <= w
             hi(S) == CHOOSE v \in S : \A w \in S : v >= w
         IN  <<[minX |-> Max(1, lo(xs)), maxX |-> Min(dim.width - 2, hi(xs)),
                minY |-> Max(1, lo(ys)), maxY |-> Min(dim.height - 2, hi(ys))]>>

padding == 2
cornerRadius == 5

createPathFromEdgePixels(box) ==
  IF box = <<>>
    THEN DegeneratePath
    ELSE LET b == box[1]
             l == b.minX - padding
             r == b.maxX + padding
             t == b.minY - padding
             u == b.maxY + padding
         IN  <<Cmd("M", l, t + cornerRadius),
               QCmd(l, t, l + cornerRadius, t),
               Cmd("L", r - cornerRadius, t),
               QCmd(r, t, r, t + cornerRadius),
               Cmd("L", r, u - cornerRadius),
               QCmd(r, u, r - cornerRadius, u),
               Cmd("L", l + cornerRadius, u),
               QCmd(l, u, l, u - cornerRadius),
               Cmd("Z", 0, 0)>>

\* generatePathFromMask, img.onload: the value the promise resolves with
decodedPath(mask, dim) == createPathFromEdgePixels(edgePixels(mask, dim))

\* mutant: a failed decode leaves the promise unsettled
FallbackOnError_Unsettled == Pending

\* generatePathFromMask, img.onerror and the missing 2d context
FallbackOnError == DegeneratePath

\* one <g color><path d fill stroke data-segment/></g>
segmentGroup(s, pathData) ==
  [color |-> getSegmentColor(s.id),
   d |-> pathData,
   fill |-> fillPattern(s),
   stroke |-> getSegmentColor(s.id),
   dataSegment |-> s.id]

\* mutant: the mode flag is ignored, every segment is exported
includedSegments_IgnoresMode(segs, includeAll) == segs

\* segments.filter(segment => includeAll || segment.ditherPattern)
includedSegments(segs, includeAll) ==
  SelectSeq(segs, LAMBDA s : includeAll \/ HasPattern(s))

\* segmentPathsPromises right after the map: an async function whose segment
\* has a stored path runs to its return, one without awaits the decode of
\* its mask; ctx tells whether getContext('2d') yields a context
pathPromises(segs, includeAll, ctx) ==
  LET inc == includedSegments(segs, includeAll)
  IN  [i \in 1..Len(inc) |->
         IF inc[i].svgPath # NoPath THEN inc[i].svgPath
         ELSE IF ctx THEN Pending ELSE FallbackOnError]

\* the indices of a sequence of promise states that have settled, ascending
SettledIndices(paths) ==
  LET pick[i \in 0..Len(paths)] ==
        IF i = 0 THEN <<>>
        ELSE IF paths[i] # Pending THEN Append(pick[i - 1], i) ELSE pick[i - 1]
  IN  pick[Len(paths)]

Settled(paths) == \A i \in 1..Len(paths) : paths[i] # Pending

\* mutant: the results are taken in the order the promises settled
promiseAll_SettleOrder(results, order) ==
  [k \in 1..Len(order) |-> results[order[k]]]

\* await Promise.all(promises): the results in the order of the promises,
\* whatever the order they settled in
promiseAll(results, order) == results

\* generateSVG once every path promise has settled
generateSVG(segs, includeAll, dim, paths, order) ==
  LET inc == includedSegments(segs, includeAll)
  IN  [width |-> dim.width, height |-> dim.height,
       viewBox |-> <<0, 0, dim.width, dim.height>>,
       defs |-> Map(LAMBDA s : generatePatternDef(s.ditherPattern, OffsetOrZero(s), dim),
                    SelectSeq(segs, HasPattern)),
       background |-> "white",
       groups |-> promiseAll([i \in 1..Len(inc) |-> segmentGroup(inc[i], paths[i])],
                             order)]

\* mutant: every blob is saved under the name of the combined export
File_SingleName(name, doc) ==
  [name |-> <<"dither-creation", "all">>, type |-> "image/svg+xml", content |-> doc]

File(name, doc) == [name |-> name, type |-> "image/svg+xml", content |-> doc]

\* one generateSVG call of an export handler and what is done with its result
Call(segs, includeAll, name) == [segs |-> segs, includeAll |-> includeAll, name |-> name]

\* an export handler suspended in an await: the generateSVG calls it still
\* has to finish (the first one is in progress) and the state of the path
\* promises of the call in progress
Job(kind, todo, ctx) ==
  [kind |-> kind, todo |-> todo,
   paths |-> pathPromises(todo[1].segs, todo[1].includeAll, ctx),
   order |-> SettledIndices(pathPromises(todo[1].segs, todo[1].includeAll, ctx)),
   failed |-> {i \in 1..Len(includedSegments(todo[1].segs, todo[1].includeAll)) :
                 includedSegments(todo[1].segs, todo[1].includeAll)[i].svgPath = NoPath
                 /\ ~ctx}]

Result(js, files, shown, done) ==
  [jobs |-> js, saved |-> files, shown |-> shown, done |-> done]

\* the microtasks that follow a handler: the export handler continues for as
\* long as the call it awaits has settled, saving or showing each document
RECURSIVE Run(_, _)
Run(job, ctx) ==
  IF ~Settled(job.paths)
    THEN Result(<<job>>, <<>>, <<>>, <<>>)
    ELSE LET head == job.todo[1]
             doc == generateSVG(head.segs, head.includeAll, imageDimensions,
                                job.paths, job.order)
             rest == Tail(job.todo)
             done == <<[order |-> job.order, failed |-> job.failed]>>
         IN  IF job.kind = "preview"
               THEN Result(<<>>, <<>>, <<[mode |-> head.name[2], svg |-> doc]>>, done)
               ELSE IF rest = <<>>
                 THEN Result(<<>>, <<File(head.name, doc)>>, <<>>, done)
                 ELSE LET r == Run(Job(job.kind, rest, ctx), ctx)
                      IN  Result(r.jobs, <<File(head.name, doc)>> \o r.saved,
                                 <<>>, done \o r.done)

(***************************************************************************)
(* Spec: the App                                                           *)
(***************************************************************************)
Interactive == imageData # Null /\ ~preview.show

ImageUpload(dim, s) ==
  /\ imageData = Null
  /\ ~preview.show
  /\ ev' = Event("upload", NoClient, Null)
  /\ imageData' = "data:image/png"
  /\ imageDimensions' = dim
  /\ segments' = <<>>
  /\ currentSegment' = Null
  /\ anchorPoints' = <<>>
  /\ isComplete' = FALSE
  /\ rect' = LayoutRect(DisplaySize(dim), s)
  /\ calls' = <<>>
  /\ clickedSince' = {}
  /\ saved' = <<>>
  /\ UNCHANGED <<gesture, preview>>
  /\ settled' = <<>>
  /\ UNCHANGED <<jobs, redrawVars, uploadVars, applied>>

StartOver ==
  /\ Interactive
  /\ ev' = Event("start-over", NoClient, Null)
  /\ imageData' = Null
  /\ imageDimensions' = Null
  /\ segments' = <<>>
  /\ currentSegment' = Null
  /\ anchorPoints' = <<>>
  /\ isComplete' = FALSE
  /\ rect' = NoRect
  /\ calls' = <<>>
  /\ clickedSince' = {}
  /\ saved' = <<>>
  /\ preview' = NoPreview
  /\ UNCHANGED gesture
  /\ settled' = <<>>
  /\ UNCHANGED <<jobs, redrawVars, uploadVars, applied>>

Select(t) == Interactive /\ SelectStep(t) /\ UNCHANGED segments

Click(p) ==
  /\ Interactive
  /\ ClickStep(p)
  /\ segments' = Deliver(segments, calls')

DoubleClick(p) ==
  /\ Interactive
  /\ DoubleClickStep(p)
  /\ segments' = Deliver(segments, calls')

AppFrame ==
  /\ calls' = <<>>
  /\ saved' = <<>>
  /\ UNCHANGED <<imageData, imageDimensions, currentSegment, canvasVars,
                 clickedSince, gesture, preview>>
  /\ settled' = <<>>
  /\ UNCHANGED <<jobs, redrawVars, uploadVars, applied>>

PatternChange(segmentId, patternId) ==
  /\ Interactive
  /\ segments # <<>>
  /\ ev' = Event("pattern", NoClient, segmentId)
  /\ segments' = handleDitherPatternChange(segments, segmentId, patternId)
  /\ AppFrame

\* the offset inputs are rendered for the segments that have a pattern
OffsetChange(segmentId, field, value) ==
  /\ Interactive
  /\ \E i \in 1..Len(segments) : segments[i].id = segmentId /\ HasPattern(segments[i])
  /\ ev' = Event("offset", NoClient, segmentId)
  /\ segments' = handlePatternOffsetChange(segments, segmentId,
                    newOffset(segments, segmentId, field, value))
  /\ AppFrame

resetOffset(segmentId) ==
  /\ Interactive
  /\ \E i \in 1..Len(segments) : segments[i].id = segmentId /\ HasPattern(segments[i])
  /\ ev' = Event("offset-reset", NoClient, segmentId)
  /\ segments' = handlePatternOffsetChange(segments, segmentId, [x |-> 0, y |-> 0])
  /\ AppFrame

ExportFrame ==
  /\ calls' = <<>>
  /\ UNCHANGED <<appVars, canvasVars, clickedSince, gesture>>
  /\ UNCHANGED <<redrawVars, uploadVars, applied>>

\* what the handler and the microtasks after it leave behind
Finish(r, others) ==
  /\ jobs' = others \o r.jobs
  /\ settled' = r.done
  /\ saved' = r.saved
  /\ preview' = IF r.shown = <<>> THEN preview
                ELSE [show |-> TRUE, mode |-> r.shown[1].mode, svg |-> <<r.shown[1].svg>>]

CanExport == Interactive /\ segments # <<>> /\ Len(jobs) < MaxJobs

exportAllAsSVG(ctx) ==
  /\ CanExport
  /\ ev' = Event("export-all", NoClient, Null)
  /\ Finish(Run(Job("save", <<Call(segments, TRUE, <<"dither-creation", "all">>)>>, ctx),
                ctx), jobs)
  /\ ExportFrame

exportSegmentsSeparately(ctx) ==
  /\ CanExport
  /\ ev' = Event("export-separate", NoClient, Null)
  /\ Finish(Run(Job("save",
                    [i \in 1..Len(segments) |->
                       Call(<<segments[i]>>, TRUE, <<"dither-creation", segments[i].id>>)],
                    ctx), ctx), jobs)
  /\ ExportFrame

exportWithPatternsOnly(ctx) ==
  /\ CanExport
  /\ ev' = Event("export-patterns", NoClient, Null)
  /\ Finish(Run(Job("save", <<Call(SelectSeq(segments, HasPattern), FALSE,
                                   <<"dither-creation", "patterns">>)>>, ctx),
                ctx), jobs)
  /\ ExportFrame

previewSVGContent(mode, ctx) ==
  /\ CanExport
  /\ ev' = Event("preview", NoClient, mode)
  /\ Finish(Run(Job("preview", <<Call(segments, mode # "patterns", <<"preview", mode>>)>>,
                    ctx), ctx), jobs)
  /\ ExportFrame

closePreview ==
  /\ preview.show
  /\ ev' = Event("preview-close", NoClient, Null)
  /\ preview' = [preview EXCEPT !.show = FALSE, !.svg = <<>>]
  /\ saved' = <<>>
  /\ settled' = <<>>
  /\ UNCHANGED jobs
  /\ ExportFrame

Init ==
  /\ imageData = Null
  /\ imageDimensions = Null
  /\ currentSegment = Null
  /\ segments = <<>>
  /\ anchorPoints = <<>>
  /\ isComplete = FALSE
  /\ rect = NoRect
  /\ calls = <<>>
  /\ ev = [op |-> "mount", client |-> NoClient, arg |-> Null, preSegment |-> Null,
           prePoints |-> <<>>, preClicked |-> {}, preSegments |-> <<>>]
  /\ clickedSince = {}
  /\ gesture = IdleGesture
  /\ saved = <<>>
  /\ preview = NoPreview
  /\ jobs = <<>>
  /\ settled = <<>>
  /\ hoveredSegment = Null
  /\ redrawTimer = {}
  /\ timeoutId = NoTimer
  /\ maskDecodes = {}
  /\ surface = <<>>
  /\ uploadedSVGs = <<>>
  /\ selectedSVG = NoSelection
  /\ activeMode = "create"
  /\ alerts = <<>>
  /\ readers = {}
  /\ pathPatterns = <<>>
  /\ pathOffsets = <<>>
  /\ applied = NoApplication

Next ==
  \/ \E dim \in ImageSizes, s \in AppShrinks : ImageUpload(dim, s)
  \/ StartOver
  \/ \E t \in SegmentTypes : Select(t)
  \/ \E p \in AppPositions : Click(p)
  \/ \E p \in AppPositions : DoubleClick(p)
  \/ \E id \in SegmentTypes, pat \in Patterns : PatternChange(id, pat)
  \/ \E id \in SegmentTypes, f \in Fields, v \in OffsetValues : OffsetChange(id, f, v)
  \/ \E id \in SegmentTypes : resetOffset(id)
  \/ \E ctx \in BOOLEAN : exportAllAsSVG(ctx)
  \/ \E ctx \in BOOLEAN : exportSegmentsSeparately(ctx)
  \/ \E ctx \in BOOLEAN : exportWithPatternsOnly(ctx)
  \/ \E mode \in {"all", "patterns"}, ctx \in BOOLEAN : previewSVGContent(mode, ctx)
  \/ closePreview

Spec == Init /\ [][Next]_vars

(***************************************************************************)
(* SpecExport: ExportControls on its own, given any segments               *)
(***************************************************************************)
\* polygons of the segments handed to the component; the last has no area
Shape1 == <<<<10, 10>>, <<50, 10>>, <<30, 40>>>>
Shape2 == <<<<60, 20>>, <<90, 20>>, <<90, 70>>, <<60, 70>>>>
Shape3 == <<<<0, 0>>, <<0, 0>>, <<0, 0>>>>

Points(fill) == [i \in 1..Len(fill) |-> Point(fill[i][1], fill[i][2])]

\* an ImageSegment with a mask only (svgPath is optional in the type)
MaskOnly(id, fill, pat) ==
  [id |-> id, name |-> Capitalize(id),
   mask |-> [width |-> 400, height |-> 300, fill |-> fill],
   svgPath |-> NoPath, ditherPattern |-> pat, patternOffset |-> NoOffset]

\* an ImageSegment as polygon capture emits it
Traced(id, fill, pat) ==
  [MaskOnly(id, fill, pat) EXCEPT !.svgPath = generateSVGPathFromPolygon(Points(fill))]

\* the segments prop of the mounted component
SegmentLists ==
  {<<MaskOnly("hair", Shape1, "dots"), Traced("face", Shape2, Undefined),
     MaskOnly("body", Shape3, "solid")>>,
   <<MaskOnly("hair", Shape1, "dots"), MaskOnly("face", Shape2, Undefined)>>,
   <<Traced("face", Shape2, "dots"), MaskOnly("body", Shape2, Undefined)>>,
   <<MaskOnly("body", Shape3, "dots")>>}

\* replace job j by what is left of it
Others(j) == SubSeq(jobs, 1, j - 1) \o SubSeq(jobs, j + 1, Len(jobs))

\* the segment whose mask path promise i of job j decodes
DecodedSegment(j, i) ==
  includedSegments(jobs[j].todo[1].segs, jobs[j].todo[1].includeAll)[i]

\* img.onload of generatePathFromMask for promise i of job j
DecodeLoad(j, i, ctx) ==
  /\ j \in 1..Len(jobs)
  /\ i \in 1..Len(jobs[j].paths)
  /\ jobs[j].paths[i] = Pending
  /\ ev' = Event("decode-load", NoClient, DecodedSegment(j, i).id)
  /\ Finish(Run([jobs[j] EXCEPT
                   !.paths[i] = decodedPath(DecodedSegment(j, i).mask, imageDimensions),
                   !.order = Append(@, i)], ctx),
            Others(j))
  /\ ExportFrame

\* img.onerror of generatePathFromMask for promise i of job j
DecodeError(j, i, ctx) ==
  /\ j \in 1..Len(jobs)
  /\ i \in 1..Len(jobs[j].paths)
  /\ jobs[j].paths[i] = Pending
  /\ i \notin jobs[j].failed
  /\ ev' = Event("decode-error", NoClient, DecodedSegment(j, i).id)
  /\ Finish(Run([jobs[j] EXCEPT
                   !.paths[i] = FallbackOnError,
                   !.order = IF FallbackOnError = Pending THEN @ ELSE Append(@, i),
                   !.failed = @ \cup {i}], ctx),
            Others(j))
  /\ ExportFrame

InitExport ==
  /\ imageData = "data:image/png"
  /\ imageDimensions \in ImageSizes
  /\ currentSegment = Null
  /\ segments \in SegmentLists
  /\ anchorPoints = <<>>
  /\ isComplete = FALSE
  /\ rect = NoRect
  /\ calls = <<>>
  /\ ev = [op |-> "mount", client |-> NoClient, arg |-> Null, preSegment |-> Null,
           prePoints |-> <<>>, preClicked |-> {}, preSegments |-> <<>>]
  /\ clickedSince = {}
  /\ gesture = IdleGesture
  /\ saved = <<>>
  /\ preview = NoPreview
  /\ jobs = <<>>
  /\ settled = <<>>
  /\ hoveredSegment = Null
  /\ redrawTimer = {}
  /\ timeoutId = NoTimer
  /\ maskDecodes = {}
  /\ surface = <<>>
  /\ uploadedSVGs = <<>>
  /\ selectedSVG = NoSelection
  /\ activeMode = "create"
  /\ alerts = <<>>
  /\ readers = {}
  /\ pathPatterns = <<>>
  /\ pathOffsets = <<>>
  /\ applied = NoApplication

NextExport ==
  \/ \E ctx \in BOOLEAN : exportAllAsSVG(ctx)
  \/ \E ctx \in BOOLEAN : exportSegmentsSeparately(ctx)
  \/ \E ctx \in BOOLEAN : exportWithPatternsOnly(ctx)
  \/ \E mode \in {"all", "patterns"}, ctx \in BOOLEAN : previewSVGContent(mode, ctx)
  \/ closePreview
  \/ \E j \in 1..MaxJobs, i \in 1..3, ctx \in BOOLEAN : DecodeLoad(j, i, ctx)
  \/ \E j \in 1..MaxJobs, i \in 1..3, ctx \in BOOLEAN : DecodeError(j, i, ctx)

SpecExport == InitExport /\ [][NextExport]_vars

(***************************************************************************)
(* SVGPatternEditor: the tile definitions of the uploaded-document editor  *)
(***************************************************************************)
editorBasePatternSize == 256

\* Math.round(basePatternSize * Math.min(maxSvgDimension / 300, 4))
editorPatternSize(dim) ==
  LET maxSvgDimension == Max(dim.width, dim.height)
  IN  IF maxSvgDimension >= 4 * 300
        THEN editorBasePatternSize * 4
        ELSE (2 * editorBasePatternSize * maxSvgDimension + 300) \div (2 * 300)

\* Math.max(12, Math.min(48, Math.min(width, height) / 15))
editorDotSize(dim) ==
  Frac(Max(12 * 15, Min(48 * 15, Min(dim.width, dim.height))), 15)

editorGeneratePatternDef(patternId, offset, dim) ==
  LET size == CASE patternId \in ImagePatterns -> Frac(editorPatternSize(dim), 1)
                [] patternId = "solid" -> Frac(1, 1)
                [] OTHER -> editorDotSize(dim)
      tile == CASE patternId \in ImagePatterns -> "image"
                [] patternId = "dots" -> "circle"
                [] OTHER -> "rect"
  IN  [id |-> patternId, width |-> size, height |-> size,
       translate |-> <<offset.x, offset.y>>, tile |-> tile]

(***************************************************************************)
(* SpecFn: the pure functions applied to inputs of bounded sets            *)
(***************************************************************************)
\* point lists handed to generateSVGPathFromPolygon
PathInputs == {<<0, 0>>, <<9, 12>>, <<20, 12>>}
SeqsUpTo(S, n) == UNION {[1..k -> S] : k \in 0..n}

\* target sizes of a tile definition
TargetSides == {0, 150, 179, 180, 400, 720, 735, 1199, 1200, 1201, 4000}

TilePatterns == {"dots", "dithered_nest"}

\* source image sizes of the display canvas
SourceWidths == {1, 400, 800, 801, 1000, 1600, 4000}
SourceHeights == {1, 300, 333, 600, 601, 900, 1200}

Size(w, h) == [width |-> w, height |-> h]

Application(fn, arg, result) == [fn |-> fn, arg |-> arg, result |-> result]

FnFrame ==
  UNCHANGED <<appVars, canvasVars, histVars, outVars, exportVars, redrawVars,
              uploadVars>>

ApplyPathFromPolygon(at) ==
  /\ applied' = Application("generateSVGPathFromPolygon", Points(at),
                            generateSVGPathFromPolygon(Points(at)))
  /\ FnFrame

\* the selectable segment types
SEGMENT_TYPES ==
  {"hair", "left-eye", "right-eye", "nose", "mouth", "face", "neck", "torso",
   "clothing-1", "clothing-2", "left-arm", "right-arm", "left-hand", "right-hand",
   "legs", "accessories", "background"}

SegmentIds == SEGMENT_TYPES \cup {"custom", "body", "tail"}

ApplySegmentColor(segmentId) ==
  /\ applied' = Application("getSegmentColor", segmentId,
                            [canvas |-> canvasGetSegmentColor(segmentId),
                             group |-> segmentGroup(Traced(segmentId, Shape1, Undefined),
                                                    <<>>)])
  /\ FnFrame

ApplyPatternDef(patternId, w, h) ==
  /\ applied' = Application("generatePatternDef", Size(w, h),
                            generatePatternDef(patternId, [x |-> 0, y |-> 0], Size(w, h)))
  /\ FnFrame

ApplyEditorPatternDef(patternId, w, h) ==
  /\ applied' = Application("editorGeneratePatternDef", Size(w, h),
                            editorGeneratePatternDef(patternId, [x |-> 0, y |-> 0],
                                                     Size(w, h)))
  /\ FnFrame

ApplyDisplaySize(w, h) ==
  /\ applied' = Application("DisplaySize", Size(w, h), DisplaySize(Size(w, h)))
  /\ FnFrame

InitFn ==
  /\ imageData = Null
  /\ imageDimensions = Null
  /\ currentSegment = Null
  /\ segments = <<>>
  /\ anchorPoints = <<>>
  /\ isComplete = FALSE
  /\ rect = NoRect
  /\ calls = <<>>
  /\ ev = [op |-> "mount", client |-> NoClient, arg |-> Null, preSegment |-> Null,
           prePoints |-> <<>>, preClicked |-> {}, preSegments |-> <<>>]
  /\ clickedSince = {}
  /\ gesture = IdleGesture
  /\ saved = <<>>
  /\ preview = NoPreview
  /\ jobs = <<>>
  /\ settled = <<>>
  /\ hoveredSegment = Null
  /\ redrawTimer = {}
  /\ timeoutId = NoTimer
  /\ maskDecodes = {}
  /\ surface = <<>>
  /\ uploadedSVGs = <<>>
  /\ selectedSVG = NoSelection
  /\ activeMode = "create"
  /\ alerts = <<>>
  /\ readers = {}
  /\ pathPatterns = <<>>
  /\ pathOffsets = <<>>
  /\ applied = NoApplication

NextFn ==
  \/ \E segmentId \in SegmentIds : ApplySegmentColor(segmentId)
  \/ \E at \in SeqsUpTo(PathInputs, MaxPoints) : ApplyPathFromPolygon(at)
  \/ \E patternId \in TilePatterns, w, h \in TargetSides :
       ApplyPatternDef(patternId, w, h)
  \/ \E patternId \in TilePatterns, w, h \in TargetSides :
       ApplyEditorPatternDef(patternId, w, h)
  \/ \E w \in SourceWidths, h \in SourceHeights : ApplyDisplaySize(w, h)

SpecFn == InitFn /\ [][NextFn]_vars

(***************************************************************************)
(* SpecUpload: image upload and document upload in the App                 *)
(***************************************************************************)
\* uploaded documents kept at the same time
MaxUploads == 2

\* files offered to the two upload components
Files == {"photo.png", "notes.txt", "art.svg", "drawing"}

\* file.type as the browser reports it
FileType(f) ==
  CASE f = "photo.png" -> "image/png"
    [] f = "notes.txt" -> "text/plain"
    [] f = "art.svg" -> ""
    [] OTHER -> "image/svg+xml"

\* file.type.startsWith('image/')
IsImageType(f) == FileType(f) \in {"image/png", "image/svg+xml"}

\* file.type === 'image/svg+xml' || file.name.endsWith('.svg')
IsSVGFile(f) == FileType(f) = "image/svg+xml" \/ f = "art.svg"

FileLists == {<<f>> : f \in Files} \cup {<<f, g>> : f, g \in Files}

\* the text of an uploaded file, as the document it parses to: "art.svg" is
\* an export of two segments, "drawing" a foreign document of one path
\* without a data-segment attribute
FileContent(f) ==
  IF f = "art.svg"
    THEN generateSVG(<<Traced("hair", Shape1, "dots"), Traced("face", Shape2, Undefined)>>,
                     TRUE, Size(400, 300),
                     <<Traced("hair", Shape1, "dots").svgPath,
                       Traced("face", Shape2, Undefined).svgPath>>, <<1, 2>>)
    ELSE [width |-> 1600, height |-> 1200, viewBox |-> <<0, 0, 1600, 1200>>,
          defs |-> <<>>, background |-> "white",
          groups |-> <<[color |-> "#000000",
                        d |-> Traced("face", Shape2, Undefined).svgPath, fill |-> "#cccccc",
                        stroke |-> "#000000", dataSegment |-> Undefined]>>]

\* the record SVGUpload's reader.onload hands to onSVGUpload
UploadedSVG(id, f) == [id |-> id, name |-> f, content |-> FileContent(f)]

\* the editor is rendered for a selected document in edit mode
EditorMounted(selected, mode) == selected # NoSelection /\ mode = "edit"

\* the editor's state after a render of App: kept while the one
\* SVGPatternEditor element stays rendered, initial when it is mounted
EditorRendered(selected, mode) ==
  IF EditorMounted(selectedSVG, activeMode) /\ EditorMounted(selected, mode)
    THEN UNCHANGED editorVars
    ELSE pathPatterns' = <<>> /\ pathOffsets' = <<>>

\* the state a file selection must leave alone
UploadState ==
  [imageData |-> imageData, imageDimensions |-> imageDimensions,
   segments |-> segments, uploadedSVGs |-> uploadedSVGs, readers |-> readers,
   selectedSVG |-> selectedSVG, activeMode |-> activeMode]

UploadFrame ==
  /\ calls' = <<>>
  /\ UNCHANGED <<currentSegment, canvasVars, clickedSince, gesture, outVars,
                 exportVars, redrawVars, applied>>

\* ImageUpload.handleFileSelect (file input change or drop)
ImageFileSelect(f) ==
  /\ activeMode = "create"
  /\ imageData = Null
  /\ ev' = Event("image-file", NoClient, [file |-> f, pre |-> UploadState])
  /\ IF ~IsImageType(f)
       THEN /\ alerts' = <<"Please select an image file">>
            /\ UNCHANGED readers
       ELSE /\ alerts' = <<>>
            /\ readers' = readers \cup {<<"image", f>>}
  /\ UNCHANGED <<appVars, uploadedSVGs, selectedSVG, activeMode, editorVars>>
  /\ UploadFrame

\* reader.onload, then img.onload: onImageUpload(imageData, dimensions)
ImageRead(f, w, h) ==
  /\ <<"image", f>> \in readers
  /\ ev' = Event("image-read", NoClient, [file |-> f, pre |-> UploadState])
  /\ readers' = readers \ {<<"image", f>>}
  /\ imageData' = "data:image/png"
  /\ imageDimensions' = Size(w, h)
  /\ segments' = <<>>
  /\ currentSegment' = Null
  /\ anchorPoints' = <<>>
  /\ isComplete' = FALSE
  /\ rect' = LayoutRect(DisplaySize(Size(w, h)), 1)
  /\ alerts' = <<>>
  /\ calls' = <<>>
  /\ UNCHANGED <<uploadedSVGs, selectedSVG, activeMode, editorVars, clickedSince,
                 gesture, outVars, exportVars, redrawVars, applied>>

\* the image does not decode: img.onload never fires
ImageUndecodable(f) ==
  /\ <<"image", f>> \in readers
  /\ ev' = Event("image-lost", NoClient, [file |-> f, pre |-> UploadState])
  /\ readers' = readers \ {<<"image", f>>}
  /\ alerts' = <<>>
  /\ UNCHANGED <<appVars, uploadedSVGs, selectedSVG, activeMode, editorVars>>
  /\ UploadFrame

\* SVGUpload.handleFileUpload (file input change or drop)
SVGFilesSelect(files) ==
  /\ activeMode = "edit"
  /\ ev' = Event("svg-files", NoClient, [file |-> files, pre |-> UploadState])
  /\ alerts' = <<>>
  /\ readers' = readers \cup {<<"svg", files[i]>> : i \in {k \in 1..Len(files) : IsSVGFile(files[k])}}
  /\ UNCHANGED <<appVars, uploadedSVGs, selectedSVG, activeMode, editorVars>>
  /\ UploadFrame

\* an id not in use, as Date.now() and Math.random() give one
FreshId == CHOOSE n \in 1..(MaxUploads + 1) : \A i \in 1..Len(uploadedSVGs) : uploadedSVGs[i].id # n

\* reader.onload of SVGUpload: onSVGUpload(svg), App.handleSVGUpload
SVGRead(f) ==
  /\ <<"svg", f>> \in readers
  /\ Len(uploadedSVGs) < MaxUploads
  /\ ev' = Event("svg-read", NoClient, [file |-> f, pre |-> UploadState])
  /\ readers' = readers \ {<<"svg", f>>}
  /\ uploadedSVGs' = Append(uploadedSVGs, UploadedSVG(FreshId, f))
  /\ alerts' = <<>>
  /\ UNCHANGED <<appVars, selectedSVG, activeMode, editorVars>>
  /\ UploadFrame

handleSVGSelect(id) ==
  /\ activeMode = "edit"
  /\ \E i \in 1..Len(uploadedSVGs) : uploadedSVGs[i].id = id
  /\ ev' = Event("svg-select", NoClient, [file |-> id, pre |-> UploadState])
  /\ selectedSVG' = id
  /\ activeMode' = "edit"
  /\ EditorRendered(id, "edit")
  /\ alerts' = <<>>
  /\ UNCHANGED <<appVars, uploadedSVGs, readers>>
  /\ UploadFrame

\* mutant: deleting the selected document leaves the selection in place
handleSVGDelete_KeepsSelection(id) ==
  /\ activeMode = "edit"
  /\ \E i \in 1..Len(uploadedSVGs) : uploadedSVGs[i].id = id
  /\ ev' = Event("svg-delete", NoClient, [file |-> id, pre |-> UploadState])
  /\ uploadedSVGs' = SelectSeq(uploadedSVGs, LAMBDA svg : svg.id # id)
  /\ UNCHANGED <<selectedSVG, activeMode, editorVars>>
  /\ alerts' = <<>>
  /\ UNCHANGED <<appVars, readers>>
  /\ UploadFrame

handleSVGDelete(id) ==
  /\ activeMode = "edit"
  /\ \E i \in 1..Len(uploadedSVGs) : uploadedSVGs[i].id = id
  /\ ev' = Event("svg-delete", NoClient, [file |-> id, pre |-> UploadState])
  /\ uploadedSVGs' = SelectSeq(uploadedSVGs, LAMBDA svg : svg.id # id)
  /\ IF selectedSVG = id
       THEN selectedSVG' = NoSelection /\ activeMode' = "create"
       ELSE UNCHANGED <<selectedSVG, activeMode>>
  /\ EditorRendered(IF selectedSVG = id THEN NoSelection ELSE selectedSVG,
                    IF selectedSVG = id THEN "create" ELSE activeMode)
  /\ alerts' = <<>>
  /\ UNCHANGED <<appVars, readers>>
  /\ UploadFrame

handleModeSwitch(mode) ==
  /\ ev' = Event("mode", NoClient, [file |-> mode, pre |-> UploadState])
  /\ activeMode' = mode
  /\ selectedSVG' = IF mode = "create" THEN NoSelection ELSE selectedSVG
  /\ EditorRendered(IF mode = "create" THEN NoSelection ELSE selectedSVG, mode)
  /\ alerts' = <<>>
  /\ UNCHANGED <<appVars, uploadedSVGs, readers>>
  /\ UploadFrame

NextUpload ==
  \/ \E f \in Files : ImageFileSelect(f)
  \/ \E f \in Files, w \in {400, 1600}, h \in {300} : ImageRead(f, w, h)
  \/ \E f \in Files : ImageUndecodable(f)
  \/ \E files \in FileLists : SVGFilesSelect(files)
  \/ \E f \in Files : SVGRead(f)
  \/ \E id \in 1..(MaxUploads + 1) : handleSVGSelect(id)
  \/ \E id \in 1..(MaxUploads + 1) : handleSVGDelete(id)
  \/ \E mode \in {"create", "edit"} : handleModeSwitch(mode)

SpecUpload == InitFn /\ [][NextUpload]_vars

(***************************************************************************)
(* SpecEditor: the editor of uploaded documents (SVGPatternEditor)         *)
(***************************************************************************)
\* the <path> elements of a document in document order: those inside the
\* tiles of <defs>, then those of the groups
PathElements(doc) ==
  LET tilePaths[i \in 0..Len(doc.defs)] ==
        IF i = 0 THEN <<>>
        ELSE IF doc.defs[i].tile = "path"
               THEN Append(tilePaths[i - 1],
                           [d |-> <<>>, fill |-> Undefined, stroke |-> "currentColor",
                            dataSegment |-> Undefined])
               ELSE tilePaths[i - 1]
  IN  tilePaths[Len(doc.defs)] \o doc.groups

\* path ids and default data-segment values, `path-${index}` and
\* `segment-${index}`, as pairs
parseSVG(content) ==
  LET elements == PathElements(content)
  IN  [paths |-> [k \in 1..Len(elements) |->
                    [id |-> <<"path", k - 1>>,
                     d |-> elements[k].d,
                     fill |-> IF elements[k].fill = Undefined THEN "#000000"
                              ELSE elements[k].fill,
                     stroke |-> elements[k].stroke,
                     strokeWidth |-> "2",
                     dataSegment |-> IF elements[k].dataSegment = Undefined
                                       THEN <<"segment", k - 1>>
                                       ELSE <<elements[k].dataSegment>>]],
       width |-> content.width, height |-> content.height]

EditorPatterns == {"dots", "dithered_nest"}

\* an object used as a map, as the list of its entries in key order
Keys(map) == {map[i][1] : i \in 1..Len(map)}

\* map[key], <<>> when undefined
Lookup(map, key) ==
  LET hits == SelectSeq(map, LAMBDA e : e[1] = key)
  IN  IF hits = <<>> THEN <<>> ELSE <<hits[1][2]>>

\* {...map, [key]: value}
Put(map, key, value) ==
  IF key \in Keys(map)
    THEN [i \in 1..Len(map) |-> IF map[i][1] = key THEN <<key, value>> ELSE map[i]]
    ELSE Append(map, <<key, value>>)

\* the document the editor was given
EditedSVG == SelectSeq(uploadedSVGs, LAMBDA svg : svg.id = selectedSVG)[1]

EditedPaths == {k - 1 : k \in 1..Len(parseSVG(EditedSVG.content).paths)}

EditorFrame ==
  /\ calls' = <<>>
  /\ alerts' = <<>>
  /\ UNCHANGED <<appVars, canvasVars, clickedSince, gesture, preview, exportVars,
                 redrawVars, uploadedSVGs, selectedSVG, activeMode, readers, applied>>

\* SVGPatternEditor.handlePatternChange
editorHandlePatternChange(index, patternId) ==
  /\ EditorMounted(selectedSVG, activeMode)
  /\ index \in EditedPaths
  /\ ev' = Event("editor-pattern", NoClient, [file |-> index, pre |-> UploadState])
  /\ pathPatterns' = Put(pathPatterns, <<"path", index>>, patternId)
  /\ saved' = <<>>
  /\ UNCHANGED pathOffsets
  /\ EditorFrame

\* SVGPatternEditor.handleOffsetChange: a coordinate is <<v>>, <<>> when it
\* is undefined
editorHandleOffsetChange(index, field, value) ==
  /\ EditorMounted(selectedSVG, activeMode)
  /\ index \in EditedPaths
  /\ Lookup(pathPatterns, <<"path", index>>) # <<>>
  /\ ev' = Event("editor-offset", NoClient, [file |-> index, pre |-> UploadState])
  /\ pathOffsets' =
       LET old == Lookup(pathOffsets, <<"path", index>>)
           prev == IF old = <<>> THEN [x |-> <<>>, y |-> <<>>] ELSE old[1]
       IN  Put(pathOffsets, <<"path", index>>,
               IF field = "x" THEN [prev EXCEPT !.x = <<value>>]
               ELSE [prev EXCEPT !.y = <<value>>])
  /\ saved' = <<>>
  /\ UNCHANGED pathPatterns
  /\ EditorFrame

\* SVGPatternEditor.resetOffset
editorResetOffset(index) ==
  /\ EditorMounted(selectedSVG, activeMode)
  /\ index \in EditedPaths
  /\ Lookup(pathPatterns, <<"path", index>>) # <<>>
  /\ ev' = Event("editor-reset", NoClient, [file |-> index, pre |-> UploadState])
  /\ pathOffsets' = Put(pathOffsets, <<"path", index>>, [x |-> <<0>>, y |-> <<0>>])
  /\ saved' = <<>>
  /\ UNCHANGED pathPatterns
  /\ EditorFrame

\* Array.from(new Set(Object.values(pathPatterns))): the patterns in use, in
\* the order of their first entry
usedPatterns(patterns) ==
  LET pick[i \in 0..Len(patterns)] ==
        IF i = 0 THEN <<>>
        ELSE IF \E k \in 1..(i - 1) : patterns[k][2] = patterns[i][2]
               THEN pick[i - 1]
               ELSE Append(pick[i - 1], patterns[i][2])
  IN  pick[Len(patterns)]

\* SVGPatternEditor.generatePatternedSVG
generatePatternedSVG(content, patterns, offsets) ==
  LET parsed == parseSVG(content)
      used == usedPatterns(patterns)
      firstKey(patternId) ==
        SelectSeq(patterns, LAMBDA e : e[2] = patternId)[1][1]
      offsetOf(patternId) ==
        LET o == Lookup(offsets, firstKey(patternId))
        IN  IF o = <<>> THEN [x |-> <<0>>, y |-> <<0>>] ELSE o[1]
  IN  [width |-> parsed.width, height |-> parsed.height,
       viewBox |-> <<0, 0, parsed.width, parsed.height>>,
       defs |-> [k \in 1..Len(used) |->
                   editorGeneratePatternDef(used[k], offsetOf(used[k]),
                                            Size(parsed.width, parsed.height))],
       background |-> "white",
       groups |-> [k \in 1..Len(parsed.paths) |->
                     LET path == parsed.paths[k]
                         patternId == Lookup(patterns, path.id)
                     IN  [color |-> path.stroke,
                          d |-> path.d,
                          fill |-> IF patternId # <<>> THEN patternId[1] ELSE path.fill,
                          stroke |-> path.stroke,
                          strokeWidth |-> path.strokeWidth,
                          dataSegment |-> path.dataSegment]]]

\* SVGPatternEditor.handleDownload
handleDownload ==
  /\ EditorMounted(selectedSVG, activeMode)
  /\ ev' = Event("editor-download", NoClient, [file |-> selectedSVG, pre |-> UploadState])
  /\ saved' = <<File(<<EditedSVG.name, "patterned">>,
                     generatePatternedSVG(EditedSVG.content, pathPatterns, pathOffsets))>>
  /\ UNCHANGED editorVars
  /\ EditorFrame

InitEditor ==
  /\ imageData = Null
  /\ imageDimensions = Null
  /\ currentSegment = Null
  /\ segments = <<>>
  /\ anchorPoints = <<>>
  /\ isComplete = FALSE
  /\ rect = NoRect
  /\ calls = <<>>
  /\ ev = [op |-> "mount", client |-> NoClient, arg |-> Null, preSegment |-> Null,
           prePoints |-> <<>>, preClicked |-> {}, preSegments |-> <<>>]
  /\ clickedSince = {}
  /\ gesture = IdleGesture
  /\ saved = <<>>
  /\ preview = NoPreview
  /\ jobs = <<>>
  /\ settled = <<>>
  /\ hoveredSegment = Null
  /\ redrawTimer = {}
  /\ timeoutId = NoTimer
  /\ maskDecodes = {}
  /\ surface = <<>>
  /\ uploadedSVGs = <<UploadedSVG(1, "art.svg"), UploadedSVG(2, "drawing")>>
  /\ selectedSVG = NoSelection
  /\ activeMode = "edit"
  /\ alerts = <<>>
  /\ readers = {}
  /\ pathPatterns = <<>>
  /\ pathOffsets = <<>>
  /\ applied = NoApplication

NextEditor ==
  \/ \E id \in 1..2 : handleSVGSelect(id)
  \/ \E id \in 1..2 : handleSVGDelete(id)
  \/ \E mode \in {"create", "edit"} : handleModeSwitch(mode)
  \/ \E index \in 0..1, patternId \in EditorPatterns :
       editorHandlePatternChange(index, patternId)
  \/ \E index \in 0..1, field \in Fields, value \in OffsetValues :
       editorHandleOffsetChange(index, field, value)
  \/ \E index \in 0..1 : editorResetOffset(index)
  \/ handleDownload

SpecEditor == InitEditor /\ [][NextEditor]_vars

(***************************************************************************)
(* The display canvas under hover: debounced redraw passes and the mask    *)
(* images they decode (SegmentationCanvas.tsx 184-231).  The canvas was    *)
(* mounted over an existing collection; the image has loaded both in the   *)
(* init effect, whose onload started one mask decode per segment, and in   *)
(* the cache effect, after which the redraw effect set its first timer.    *)
(***************************************************************************)
\* redraw passes in one behaviour
MaxPasses == 2

\* mask images decoding at the same time
MaxDecodes == 3

RedrawSegmentLists ==
  {<<Traced("hair", Shape1, Undefined)>>,
   <<Traced("hair", Shape1, Undefined), Traced("face", Shape2, "dots")>>}

HoverTargets == SegmentTypes \cup {Null}

\* one `new Image()` of a pass: the segment and the hover state it closed over
MaskDecode(pass, index, hovered, segment) ==
  [pass |-> pass, index |-> index, hovered |-> hovered, id |-> segment.id]

\* what maskImg.onload paints (alpha in tenths)
MaskDraw(id, hovered, pass) ==
  IF hovered = id
    THEN [id |-> id, alpha |-> 6, fillStyle |-> "#3b82f6", pass |-> pass]
    ELSE [id |-> id, alpha |-> 3, fillStyle |-> canvasGetSegmentColor(id),
          pass |-> pass]

\* the loop over the segments in the init effect's img.onload: no highlight
initialSegmentDraw ==
  {MaskDecode(0, i, Null, segments[i]) : i \in 1..Len(segments)}

\* setTimeout returns an id no live timer has
FreshTimerId(used) ==
  CHOOSE n \in 1..(Cardinality(used) + 1) : n \notin used

\* a timer whose callback is the redrawSegmentsOnly of one render
Timer(id, hovered, segs) == [id |-> id, hovered |-> hovered, segments |-> segs]

\* mutant: the effect without its cleanup
redrawEffect_NoCleanup(hovered, segs) ==
  LET id == FreshTimerId({t.id : t \in redrawTimer} \cup {timeoutId})
  IN  /\ redrawTimer' = redrawTimer \cup {Timer(id, hovered, segs)}
      /\ timeoutId' = id

\* the redraw effect re-run after a render with new dependencies: the
\* cleanup of the previous run, then setTimeout
redrawEffect(hovered, segs) ==
  LET cleared == {t \in redrawTimer : t.id # timeoutId}
      id == FreshTimerId({t.id : t \in redrawTimer} \cup {timeoutId})
  IN  /\ redrawTimer' = cleared \cup {Timer(id, hovered, segs)}
      /\ timeoutId' = id

RedrawFrame ==
  UNCHANGED <<imageData, imageDimensions, currentSegment, canvasVars, calls,
              clickedSince, gesture, outVars, exportVars, uploadVars, applied>>

InitRedraw ==
  /\ imageData = "data:image/png"
  /\ imageDimensions = Size(400, 300)
  /\ currentSegment = Null
  /\ segments \in RedrawSegmentLists
  /\ anchorPoints = <<>>
  /\ isComplete = FALSE
  /\ rect = NoRect
  /\ calls = <<>>
  /\ ev = [op |-> "mount", pass |-> 0, hovered |-> Null, segments |-> segments]
  /\ clickedSince = {}
  /\ gesture = IdleGesture
  /\ saved = <<>>
  /\ preview = NoPreview
  /\ jobs = <<>>
  /\ settled = <<>>
  /\ hoveredSegment = Null
  /\ redrawTimer = {Timer(1, Null, segments)}
  /\ timeoutId = 1
  /\ maskDecodes = initialSegmentDraw
  /\ surface = <<>>
  /\ uploadedSVGs = <<>>
  /\ selectedSVG = NoSelection
  /\ activeMode = "create"
  /\ alerts = <<>>
  /\ readers = {}
  /\ pathPatterns = <<>>
  /\ pathOffsets = <<>>
  /\ applied = NoApplication

\* App.handleSegmentHover; a render with a new hover value re-runs the
\* redraw effect
handleSegmentHover(segmentType) ==
  /\ hoveredSegment' = segmentType
  /\ IF segmentType # hoveredSegment
       THEN redrawEffect(segmentType, segments)
       ELSE UNCHANGED <<redrawTimer, timeoutId>>
  /\ UNCHANGED <<ev, segments, maskDecodes, surface>>
  /\ RedrawFrame

\* a polygon of the type was captured: App.handleSegmentComplete replaces
\* the collection, which re-runs the redraw effect
SegmentCaptured(segmentType) ==
  /\ segments' = handleSegmentComplete(segments,
                   Traced(segmentType, IF segmentType = "hair" THEN Shape1 ELSE Shape2,
                          Undefined))
  /\ redrawEffect(hoveredSegment, segments')
  /\ UNCHANGED <<ev, hoveredSegment, maskDecodes, surface>>
  /\ RedrawFrame

\* the timer fires: the redrawSegmentsOnly it closed over clears the canvas,
\* paints the cached image and starts one mask decode per segment
redrawSegmentsOnly(id) ==
  /\ ev.pass < MaxPasses
  /\ \E t \in redrawTimer :
       /\ t.id = id
       /\ Cardinality(maskDecodes) + Len(t.segments) <= MaxDecodes
       /\ redrawTimer' = redrawTimer \ {t}
       /\ maskDecodes' = maskDecodes \cup
            {MaskDecode(ev.pass + 1, i, t.hovered, t.segments[i]) :
               i \in 1..Len(t.segments)}
       /\ ev' = [op |-> "redraw", pass |-> ev.pass + 1, hovered |-> t.hovered,
                 segments |-> t.segments]
  /\ surface' = <<>>
  /\ UNCHANGED <<hoveredSegment, timeoutId, segments>>
  /\ RedrawFrame

\* maskImg.onload of one decode, of whichever pass, in whichever order
MaskLoad(pass, index) ==
  /\ \E d \in maskDecodes :
       /\ d.pass = pass
       /\ d.index = index
       /\ maskDecodes' = maskDecodes \ {d}
       /\ surface' = Append(surface, MaskDraw(d.id, d.hovered, pass))
  /\ UNCHANGED <<ev, hoveredSegment, redrawTimer, timeoutId, segments>>
  /\ RedrawFrame

NextRedraw ==
  \/ \E segmentType \in HoverTargets : handleSegmentHover(segmentType)
  \/ \E segmentType \in SegmentTypes : SegmentCaptured(segmentType)
  \/ \E id \in 1..2 : redrawSegmentsOnly(id)
  \/ \E pass \in 0..MaxPasses, index \in 1..2 : MaskLoad(pass, index)

SpecRedraw == InitRedraw /\ [][NextRedraw]_vars

(***************************************************************************)
(* Claims about polygon capture (SpecCanvas)                               *)
(***************************************************************************)
ClickOps == {"click", "gesture-click1", "gesture-click2"}
DblOps == {"dblclick", "gesture-dblclick"}

DistSq(a, b) == (a.x - b.x) * (a.x - b.x) + (a.y - b.y) * (a.y - b.y)

IsPrefix(s, t) == Len(s) <= Len(t) /\ SubSeq(t, 1, Len(s)) = s

\* the canvas point a click at client position p should land on: a linear
\* ratio of the position within the laid-out rect, cross-multiplied
LandsAt(pt, p) ==
  /\ pt.x * rect.width = (p[1] - rect.left) * CanvasSize.width
  /\ pt.y * rect.height = (p[2] - rect.top) * CanvasSize.height

\* the points a vector path runs through, in order
PathPoints(path) ==
  [i \in 1..(Len(path) - 1) |-> Point(path[i].x, path[i].y)]

\* C1: a finalize gesture made with fewer than 3 anchor points (a dblclick
\* event, or a click near the first point) never invokes onSegmentComplete;
\* the points already placed and the selected type stay as they were and the
\* completion flag stays false, so capture continues.
C1_FinalizeBelowThreeIgnored ==
  /\ (ev.op \in DblOps /\ Len(ev.prePoints) < 3)
       => /\ calls = <<>>
          /\ anchorPoints = ev.prePoints
          /\ currentSegment = ev.preSegment
          /\ ~isComplete
  /\ (/\ ev.op \in ClickOps
      /\ ev.preSegment # Null
      /\ Len(ev.prePoints) \in 1..2
      /\ \E pt \in clickedSince :
            LandsAt(pt, ev.client) /\ DistSq(pt, ev.prePoints[1]) < 15 * 15)
       => /\ calls = <<>>
          /\ IsPrefix(ev.prePoints, anchorPoints)
          /\ currentSegment = ev.preSegment
          /\ ~isComplete

C1_Witness ==
  /\ ev.op = "dblclick"
  /\ ev.preSegment # Null
  /\ Len(ev.prePoints) = 2
  /\ anchorPoints = ev.prePoints

\* C2: with a type selected and at least 3 anchor points, a dblclick event
\* anywhere on the overlay finalizes the polygon: onSegmentComplete is
\* invoked exactly once, for the selected type and the placed points, and
\* the anchor list becomes empty.
C2_DoubleClickFinalizes ==
  (ev.op \in DblOps /\ ev.preSegment # Null /\ Len(ev.prePoints) >= 3)
    => /\ Len(calls) = 1
       /\ calls[1].id = ev.preSegment
       /\ PathPoints(calls[1].svgPath) = ev.prePoints
       /\ anchorPoints = <<>>

\* a dblclick far from the first point finalized a polygon
C2_Witness ==
  /\ ev.op = "dblclick"
  /\ Len(ev.prePoints) >= 3
  /\ Len(calls) = 1
  /\ \E pt \in {Point(x, y) : x \in 0..40, y \in 0..24} :
        LandsAt(pt, ev.client) /\ DistSq(pt, ev.prePoints[1]) > 15 * 15

\* what a click must do according to the claim C3, for a given reading of
\* "within 15 px" (closes) of the mapped click point pt
ClickObeys(closes, pt) ==
  IF Len(ev.prePoints) >= 3 /\ closes
    THEN /\ Len(calls) = 1
         /\ PathPoints(calls[1].svgPath) = ev.prePoints
         /\ anchorPoints = <<>>
    ELSE /\ calls = <<>>
         /\ anchorPoints = Append(ev.prePoints, pt)

ClickedPoint == CHOOSE pt \in clickedSince : LandsAt(pt, ev.client)

\* C3 as stated: a click at distance <= 15 from the first point closes a
\* polygon of >= 3 points; any other click appends the mapped point.
C3_CloseWithin15Inclusive ==
  (ev.op \in ClickOps /\ ev.preSegment # Null)
    => ClickObeys(DistSq(ClickedPoint, ev.prePoints[1]) <= 15 * 15, ClickedPoint)

\* C3 amended: a click at distance strictly below 15 from the first point
\* closes a polygon of >= 3 points and is not appended; with fewer than 3
\* points, or at distance 15 or more, the click appends exactly one point at
\* the mapped coordinate.
C3_CloseBelow15 ==
  (ev.op \in ClickOps /\ ev.preSegment # Null)
    => /\ \E pt \in clickedSince : LandsAt(pt, ev.client)
       /\ ClickObeys(DistSq(ClickedPoint, ev.prePoints[1]) < 15 * 15, ClickedPoint)

\* a click at a non-zero distance below 15 from the first point closed
C3_Witness ==
  /\ ev.op = "click"
  /\ Len(ev.prePoints) >= 3
  /\ Len(calls) = 1
  /\ ClickedPoint # ev.prePoints[1]
  /\ anchorPoints = <<>>

\* C4: a physical double-click (click, click, dblclick) made with >= 3
\* points placed emits exactly the segment a closing click would emit: one
\* segment whose path runs through the points placed before the gesture.
C4_GestureSameAsCloseClick ==
  (ev.op = "gesture-dblclick" /\ Len(gesture.base) >= 3)
    => /\ Len(gesture.calls) = 1
       /\ PathPoints(gesture.calls[1].svgPath) = gesture.base

\* C5: changing the selected type discards the uncommitted points and emits
\* nothing; every emitted segment runs only through points clicked since
\* the current type was selected.
C5_TypeChangeDiscards ==
  /\ (ev.op = "select" /\ ev.arg # ev.preSegment)
       => anchorPoints = <<>> /\ calls = <<>> /\ ~isComplete
  /\ \A i \in 1..Len(calls) :
       \A j \in 1..Len(PathPoints(calls[i].svgPath)) :
          PathPoints(calls[i].svgPath)[j] \in ev.preClicked

\* the type was changed with 2 uncommitted points
C5_Witness ==
  /\ ev.op = "select"
  /\ ev.arg # ev.preSegment
  /\ ev.arg # Null
  /\ Len(ev.prePoints) = 2
  /\ anchorPoints = <<>>

(***************************************************************************)
(* Claims about the segment collection and the export (Spec)               *)
(***************************************************************************)
Ids(segs) == [i \in 1..Len(segs) |-> segs[i].id]

\* the documents generated by the most recent handler
ProducedDocs ==
  {saved[i].content : i \in 1..Len(saved)} \cup {preview.svg[i] : i \in 1..Len(preview.svg)}

\* data-segment of every <path> element of a document, in document order;
\* a tile definition drawn with a <path> would count as one more
DataSegments(doc) == [i \in 1..Len(doc.groups) |-> doc.groups[i].dataSegment]
NumPaths(doc) ==
  Len(doc.groups) + Cardinality({i \in 1..Len(doc.defs) : doc.defs[i].tile = "path"})

\* the segments of the collection a document exports
Included(doc) ==
  {segments[i] : i \in {k \in 1..Len(segments) :
        \E j \in 1..Len(doc.groups) : doc.groups[j].dataSegment = segments[k].id}}

\* C6: the collection holds at most one segment per id; a completion for an
\* id already present leaves exactly one entry for that id, the record just
\* emitted, without the pattern or offset of the entry it replaces.
C6_OneSegmentPerId ==
  /\ \A i, j \in 1..Len(segments) : segments[i].id = segments[j].id => i = j
  /\ calls # <<>> =>
       LET now == SelectSeq(segments, LAMBDA s : s.id = calls[1].id)
       IN  /\ now = <<calls[1]>>
           /\ ~HasPattern(now[1])
           /\ now[1].patternOffset = NoOffset

\* an id that had a pattern and an offset was segmented again
C6_Witness ==
  /\ calls # <<>>
  /\ \E k \in 1..Len(ev.preSegments) :
        /\ ev.preSegments[k].id = calls[1].id
        /\ HasPattern(ev.preSegments[k])
        /\ ev.preSegments[k].patternOffset # NoOffset
  /\ Len(segments) = 2

\* C7: in all mode the document holds exactly one path per segment, in
\* order, data-segment being the segment id, patterned or not; in
\* patterns-only mode exactly one path per segment that has a pattern and
\* none for the others.
C7_OnePathPerSegment ==
  /\ ev.op = "export-all" =>
       /\ DataSegments(saved[1].content) = Ids(segments)
       /\ NumPaths(saved[1].content) = Len(segments)
  /\ (ev.op = "preview" /\ ev.arg = "all") =>
       /\ DataSegments(preview.svg[1]) = Ids(segments)
       /\ NumPaths(preview.svg[1]) = Len(segments)
  /\ ev.op = "export-patterns" =>
       /\ DataSegments(saved[1].content) = Ids(SelectSeq(segments, HasPattern))
       /\ NumPaths(saved[1].content) = Len(SelectSeq(segments, HasPattern))
  /\ (ev.op = "preview" /\ ev.arg = "patterns") =>
       /\ DataSegments(preview.svg[1]) = Ids(SelectSeq(segments, HasPattern))
       /\ NumPaths(preview.svg[1]) = Len(SelectSeq(segments, HasPattern))

\* a patterns-only document was generated from a collection holding a
\* segment with a pattern and one without
C7_Witness ==
  /\ ev.op = "preview"
  /\ ev.arg = "patterns"
  /\ \E i, j \in 1..Len(segments) : HasPattern(segments[i]) /\ ~HasPattern(segments[j])
  /\ Len(preview.svg[1].groups) = 1

\* C8: in every generated document each pattern id assigned to an exported
\* segment has exactly one tile definition.
C8_OneDefinitionPerPattern ==
  \A doc \in ProducedDocs :
    \A s \in Included(doc) :
      HasPattern(s) =>
        Cardinality({i \in 1..Len(doc.defs) : doc.defs[i].id = s.ditherPattern}) = 1

\* C9: in every generated document each fill reference url(#p) of a segment
\* path names a pattern defined in the defs of that document.
C9_FillReferencesDefined ==
  \A doc \in ProducedDocs :
    \A j \in 1..Len(doc.groups) :
      \E i \in 1..Len(doc.defs) : doc.defs[i].id = doc.groups[j].fill

\* C10: in every generated document, for each pattern id there is a tile
\* definition of that id (the one url(#id) resolves to) carrying the
\* translate of every exported segment that uses the id and stores an offset.
C10_OffsetPerSegment ==
  \A doc \in ProducedDocs :
    \A pid \in Patterns :
      LET users == {s \in Included(doc) :
                      s.ditherPattern = pid /\ s.patternOffset # NoOffset}
      IN  users # {} =>
            \E i \in 1..Len(doc.defs) :
               /\ doc.defs[i].id = pid
               /\ \A s \in users :
                    doc.defs[i].translate = <<s.patternOffset[1].x, s.patternOffset[1].y>>

(***************************************************************************)
(* Claims about the export with mask decodes in flight (SpecExport)        *)
(***************************************************************************)
DecodeOps == {"decode-load", "decode-error"}
ExportOps == {"export-all", "export-separate", "export-patterns", "preview"}

\* the segment ids a document saved under a name has to show, in order
ExpectedIds(kind) ==
  CASE kind = "all" -> Ids(segments)
    [] kind = "patterns" -> Ids(SelectSeq(segments, HasPattern))
    [] OTHER -> <<kind>>

\* C11: every generated document has the white background rectangle and
\* after it one group per included segment in the order of the segments
\* given to the generator, whatever the order the mask decodes finished in.
C11_GroupsInSegmentOrder ==
  /\ \A k \in 1..Len(saved) :
       /\ saved[k].content.background = "white"
       /\ DataSegments(saved[k].content) = ExpectedIds(saved[k].name[2])
  /\ \A k \in 1..Len(preview.svg) :
       /\ preview.svg[k].background = "white"
       /\ DataSegments(preview.svg[k]) = ExpectedIds(preview.mode)

\* a document of two or more groups was finished by a decode, the decodes
\* of its segments having finished in an order other than segment order
C11_Witness ==
  /\ ev.op \in DecodeOps
  /\ Len(saved) = 1
  /\ Len(saved[1].content.groups) >= 2
  /\ \E a, b \in 1..Len(settled[1].order) :
        a < b /\ settled[1].order[a] > settled[1].order[b]

\* the segments a document saved under a name was generated from
ExpectedSegments(kind) ==
  CASE kind = "all" -> segments
    [] kind = "patterns" -> SelectSeq(segments, HasPattern)
    [] OTHER -> SelectSeq(segments, LAMBDA s : s.id = kind)

\* the documents finished by the most recent handler and what each shows
StepDocs ==
  IF settled = <<>> THEN <<>>
  ELSE IF saved # <<>>
    THEN [k \in 1..Len(saved) |-> [kind |-> saved[k].name[2], doc |-> saved[k].content]]
    ELSE [k \in 1..Len(preview.svg) |-> [kind |-> preview.mode, doc |-> preview.svg[k]]]

\* C12: a mask decode that fails (error event, or no drawing context)
\* resolves to the degenerate path 'M0,0 Z', never leaving its promise
\* unsettled or rejected; the export handler goes on to finish its
\* document, in which the failed segment has the degenerate path and every
\* other segment its stored path or the path decoded from its mask.
C12_FailedDecodeDegenerate ==
  /\ \A j \in 1..Len(jobs) :
       /\ \A i \in jobs[j].failed : jobs[j].paths[i] = DegeneratePath
       /\ \E i \in 1..Len(jobs[j].paths) : jobs[j].paths[i] = Pending
  /\ ev.op \in ExportOps \cup DecodeOps =>
       /\ Len(StepDocs) = Len(settled)
       /\ \A k \in 1..Len(settled) :
            LET segs == ExpectedSegments(StepDocs[k].kind)
                doc == StepDocs[k].doc
            IN  /\ Len(doc.groups) = Len(segs)
                /\ \A i \in 1..Len(segs) :
                     doc.groups[i].d =
                       IF i \in settled[k].failed THEN DegeneratePath
                       ELSE IF segs[i].svgPath # NoPath THEN segs[i].svgPath
                       ELSE decodedPath(segs[i].mask, imageDimensions)

\* a decode error finished a document that holds the degenerate path for
\* the failed segment next to the stored path of another segment and the
\* decoded path of a third
C12_Witness ==
  /\ ev.op = "decode-error"
  /\ Len(saved) = 1
  /\ settled[1].failed # {}
  /\ \E i, j, k \in 1..Len(saved[1].content.groups) :
        /\ i \in settled[1].failed
        /\ saved[1].content.groups[i].d = DegeneratePath
        /\ ExpectedSegments(saved[1].name[2])[j].svgPath # NoPath
        /\ saved[1].content.groups[j].d = ExpectedSegments(saved[1].name[2])[j].svgPath
        /\ k \notin settled[1].failed \cup {j}
        /\ saved[1].content.groups[k].d # DegeneratePath

(***************************************************************************)
(* Claims about the exported files (Spec)                                  *)
(***************************************************************************)
\* C13: Export All saves exactly one file dither-creation-all.svg; Export
\* Separate Files saves one file per segment, dither-creation-<id>.svg, in
\* segment order; Export with Patterns saves exactly one file
\* dither-creation-patterns.svg however many segments have a pattern; every
\* blob saved has type image/svg+xml.
C13_ExportedFiles ==
  /\ ev.op = "export-all" =>
       [k \in 1..Len(saved) |-> saved[k].name] = <<<<"dither-creation", "all">>>>
  /\ ev.op = "export-separate" =>
       [k \in 1..Len(saved) |-> saved[k].name]
         = [i \in 1..Len(segments) |-> <<"dither-creation", segments[i].id>>]
  /\ ev.op = "export-patterns" =>
       [k \in 1..Len(saved) |-> saved[k].name] = <<<<"dither-creation", "patterns">>>>
  /\ \A k \in 1..Len(saved) : saved[k].type = "image/svg+xml"

\* two files were saved for two segments of which none has a pattern
C13_Witness ==
  /\ ev.op = "export-separate"
  /\ Len(saved) = 2
  /\ saved[1].name # saved[2].name
  /\ \A i \in 1..Len(segments) : ~HasPattern(segments[i])

(***************************************************************************)
(* Claims about the emitted segment record (SpecCanvas)                    *)
(***************************************************************************)
\* the properties an ImageSegment object has
PresentFields(seg) ==
  {"id", "name", "mask"}
    \cup (IF seg.svgPath # NoPath THEN {"svgPath"} ELSE {})
    \cup (IF HasPattern(seg) THEN {"ditherPattern"} ELSE {})
    \cup (IF seg.patternOffset # NoOffset THEN {"patternOffset"} ELSE {})

UpperFirst == [t \in SegmentTypes |-> IF t = "hair" THEN "Hair" ELSE "Face"]

\* id, name and mask of the record emitted for the type selected
EmittedFor(seg, t) ==
  /\ seg.id = t
  /\ seg.name = UpperFirst[t]
  /\ seg.mask.width = CanvasSize.width
  /\ seg.mask.height = CanvasSize.height

C15_PathFromPolygon ==
  applied.fn = "generateSVGPathFromPolygon" =>
    LET pts == applied.arg
        path == applied.result
    IN  IF Len(pts) >= 3
          THEN /\ Len(path) = Len(pts) + 1
               /\ path[1].cmd = "M" /\ path[1].x = pts[1].x /\ path[1].y = pts[1].y
               /\ \A i \in 2..Len(pts) :
                    path[i].cmd = "L" /\ path[i].x = pts[i].x /\ path[i].y = pts[i].y
               /\ path[Len(pts) + 1].cmd = "Z"
          ELSE /\ Len(path) = 2
               /\ path[1].cmd = "M" /\ path[1].x = 0 /\ path[1].y = 0
               /\ path[2].cmd = "Z"

\* the function was applied to a list of 4 points that visits a point twice
C15_Witness ==
  /\ applied.fn = "generateSVGPathFromPolygon"
  /\ Len(applied.arg) = 4
  /\ applied.arg[1] = applied.arg[3]
  /\ applied.arg[1] # applied.arg[2]
  /\ Len(applied.result) = 5

\* the scale min(1, 800 / W, 600 / H) applied to both sides of the source,
\* each taken down to whole pixels
FitWithin(dim) ==
  IF dim.width * 600 >= dim.height * 800
    THEN IF dim.width > 800
           THEN [width |-> 800, height |-> (dim.height * 800) \div dim.width]
           ELSE dim
    ELSE IF dim.height > 600
           THEN [width |-> (dim.width * 600) \div dim.height, height |-> 600]
           ELSE dim

\* C16: for every target size (w, h) the side of the dot tile is
\* min(w, h) / 15 clamped to [12, 48], never below 12 nor above 48, in the
\* export generator and in the editor of uploaded documents alike.
C16_DotTileClamped ==
  (/\ applied.fn \in {"generatePatternDef", "editorGeneratePatternDef"}
   /\ applied.result.tile = "circle") =>
    LET m == IF applied.arg.width <= applied.arg.height
               THEN applied.arg.width ELSE applied.arg.height
        side == applied.result.width
    IN  /\ applied.result.height = side
        /\ side.den > 0
        /\ side.num >= 12 * side.den
        /\ side.num <= 48 * side.den
        /\ (m >= 12 * 15 /\ m <= 48 * 15) => side.num * 15 = m * side.den
        /\ m < 12 * 15 => side.num = 12 * side.den
        /\ m > 48 * 15 => side.num = 48 * side.den

\* the editor sized the dot tile of a 150 x 4000 target to 12
C16_Witness ==
  /\ applied.fn = "editorGeneratePatternDef"
  /\ applied.result.tile = "circle"
  /\ applied.arg.width = 150
  /\ applied.arg.height = 4000
  /\ applied.result.width.num = 12 * applied.result.width.den

InvalidSelection ==
  \/ ev.op = "image-file" /\ FileType(ev.arg.file) \notin {"image/png", "image/svg+xml"}
  \/ ev.op = "svg-files" /\ \A i \in 1..Len(ev.arg.file) : ev.arg.file[i] = "notes.txt"

SameOutline(seg) ==
  /\ seg.svgPath # <<>>
  /\ Len(seg.svgPath) = Len(seg.mask.fill) + 1
  /\ \A i \in 1..Len(seg.mask.fill) :
       /\ seg.svgPath[i].x = seg.mask.fill[i][1]
       /\ seg.svgPath[i].y = seg.mask.fill[i][2]

DrawsOf(id) == {k \in 1..Len(surface) : surface[k].id = id}

\* C20: when a redraw pass was superseded by a later pass while its mask
\* decodes were in flight, then once all decodes have completed the surface
\* shows the mask of each segment exactly once, drawn by the latest pass
\* with the highlight state of that pass, whatever the completion order.
C20_SupersededDrawsDiscarded ==
  (maskDecodes = {} /\ redrawTimer = {} /\ ev.pass >= 1) =>
    \A i \in 1..Len(segments) :
      /\ Cardinality(DrawsOf(segments[i].id)) = 1
      /\ \A k \in DrawsOf(segments[i].id) :
           /\ surface[k].pass = ev.pass
           /\ surface[k] = MaskDraw(segments[i].id, ev.hovered, ev.pass)

(***************************************************************************)
(* Claims about the debounce of the redraw (SpecRedraw)                    *)
(***************************************************************************)
\* C21: at most one redraw timer is pending at any time, and it is the one
\* set after the last hover or segment change: a change that arrives while
\* a timer is pending cancels it, so a burst of changes starts one redraw
\* pass, when the one timer fires, and that pass uses the last hover value
\* and the last collection.
C21_OneTimerLastValue ==
  /\ Cardinality(redrawTimer) <= 1
  /\ \A t \in redrawTimer :
       /\ t.id = timeoutId
       /\ t.hovered = hoveredSegment
       /\ t.segments = segments
  /\ redrawTimer = {} =>
       /\ ev.pass >= 1
       /\ ev.hovered = hoveredSegment
       /\ ev.segments = segments

\* after a burst of two hover changes and a capture before the first timer
\* fired, the one pass so far used the last hover value
C21_Witness ==
  /\ ev.pass = 1
  /\ ev.hovered = "face"
  /\ Len(ev.segments) = 2
  /\ timeoutId = 2
  /\ redrawTimer = {}

(***************************************************************************)
(* Claims about the side of an image-backed tile (SpecFn)                  *)
(***************************************************************************)
\* side is the integer nearest to base * min(m / reference, cap)
NearestToScaled(side, base, m, reference, cap) ==
  LET mm == IF m <= cap * reference THEN m ELSE cap * reference
  IN  /\ 2 * side * reference - reference <= 2 * base * mm
      /\ 2 * base * mm < 2 * side * reference + reference

DefaultColor == "#888"

FacialFeatures == {"left-eye", "right-eye", "nose", "mouth"}

\* C23: each of the 17 segment types has an assigned colour, the same on
\* the canvas and in the colour context and stroke of its export group;
\* the facial features share one colour (almost black), which is not the
\* colour of neck (saddle brown), and only ids outside the taxonomy get the
\* generic default colour.
C23_EveryTypeHasItsColour ==
  applied.fn = "getSegmentColor" =>
    /\ applied.result.group.color = applied.result.canvas
    /\ applied.result.group.stroke = applied.result.canvas
    /\ applied.arg \in SEGMENT_TYPES => applied.result.canvas # DefaultColor
    /\ applied.arg \in FacialFeatures =>
         /\ applied.result.group.color = getSegmentColor("left-eye")
         /\ applied.result.group.color # getSegmentColor("neck")

(***************************************************************************)
(* Claims about the editor of uploaded documents (SpecEditor)              *)
(***************************************************************************)
\* the document the editor would write now
EditorOutput == generatePatternedSVG(EditedSVG.content, pathPatterns, pathOffsets)

\* C24: patterns and offsets assigned in the editor while one uploaded
\* document was selected do not affect the SVG regenerated for a different
\* document selected afterwards: its mapping starts empty, so right after
\* the selection its SVG has no tile definition and every path has the fill
\* of the upload.
C24_MappingPerDocument ==
  (/\ ev.op = "svg-select"
   /\ ev.arg.pre.selectedSVG # selectedSVG) =>
    /\ pathPatterns = <<>>
    /\ pathOffsets = <<>>
    /\ EditorOutput.defs = <<>>
    /\ \A k \in 1..Len(EditorOutput.groups) :
         EditorOutput.groups[k].fill = parseSVG(EditedSVG.content).paths[k].fill

\* C25: every translate(x,y) of a tile definition has two numeric
\* coordinates: setting one coordinate of the offset of a segment or of a
\* path of an uploaded document leaves the other at its previous value, or
\* at 0 if it was never set.
C25_TranslateHasTwoNumbers ==
  /\ ev.op = "editor-offset" =>
       LET entry == Lookup(pathOffsets, <<"path", ev.arg.file>>)[1]
       IN  Len(entry.x) = 1 /\ Len(entry.y) = 1
  /\ EditorMounted(selectedSVG, activeMode) =>
       \A k \in 1..Len(EditorOutput.defs) :
         /\ Len(EditorOutput.defs[k].translate[1]) = 1
         /\ Len(EditorOutput.defs[k].translate[2]) = 1

(***************************************************************************)
(* Claims about the App with the canvas and the export (Spec)              *)
(***************************************************************************)
\* the stored segment a group of a document was written for
SegmentOf(group) == SelectSeq(segments, LAMBDA s : s.id = group.dataSegment)[1]

\* C26: for every image size, also above 800x600 where the image is shown
\* scaled down, a vertex clicked at a fractional position of the displayed
\* image is exported at the same fractional position of the SVG document,
\* whose width, height and viewBox are the original image dimensions.
C26_VertexKeepsFraction ==
  ev.op = "export-all" =>
    LET doc == saved[1].content
    IN  /\ doc.width = imageDimensions.width
        /\ doc.height = imageDimensions.height
        /\ doc.viewBox = <<0, 0, imageDimensions.width, imageDimensions.height>>
        /\ \A j \in 1..Len(doc.groups) :
             LET clicked == PathPoints(SegmentOf(doc.groups[j]).svgPath)
                 exported == PathPoints(doc.groups[j].d)
             IN  /\ Len(exported) = Len(clicked)
                 /\ \A i \in 1..Len(clicked) :
                      /\ exported[i].x * CanvasSize.width = clicked[i].x * doc.width
                      /\ exported[i].y * CanvasSize.height = clicked[i].y * doc.height

\* C27: the capture never stays complete: between events isComplete is
\* false, and right after a finalization the anchor list is empty; so with a
\* type selected a primary click is never ignored: it appends exactly one
\* point or finalizes the polygon.
C27_NeverStaysComplete ==
  /\ ~isComplete
  /\ calls # <<>> => anchorPoints = <<>>
  /\ (ev.op \in ClickOps /\ ev.preSegment # Null) =>
       \/ /\ calls = <<>>
          /\ Len(anchorPoints) = Len(ev.prePoints) + 1
          /\ IsPrefix(ev.prePoints, anchorPoints)
       \/ /\ Len(calls) = 1
          /\ PathPoints(calls[1].svgPath) = ev.prePoints
          /\ anchorPoints = <<>>

\* the first click after a finalization started the next polygon
C27_Witness ==
  /\ ev.op = "click"
  /\ ev.preSegments # <<>>
  /\ ev.prePoints = <<>>
  /\ Len(anchorPoints) = 1
  /\ ~isComplete

AssignOps == {"pattern", "offset", "offset-reset"}

\* the fields of a segment an assignment must leave alone
Outline(seg) == <<seg.id, seg.name, seg.mask, seg.svgPath>>

\* C28: assigning a pattern or an offset to the id X changes only that field
\* of the segment X: the number, order, ids, masks and paths of all
\* segments, the selected type and the anchor points in progress stay as
\* they were; for an id that is not in the collection nothing changes.
C28_AssignmentChangesOneField ==
  ev.op \in AssignOps =>
    /\ Len(segments) = Len(ev.preSegments)
    /\ \A i \in 1..Len(ev.preSegments) :
         /\ Outline(segments[i]) = Outline(ev.preSegments[i])
         /\ segments[i].id # ev.arg => segments[i] = ev.preSegments[i]
         /\ ev.op = "pattern" =>
              segments[i].patternOffset = ev.preSegments[i].patternOffset
         /\ ev.op # "pattern" =>
              segments[i].ditherPattern = ev.preSegments[i].ditherPattern
    /\ currentSegment = ev.preSegment
    /\ anchorPoints = ev.prePoints
    /\ (\A i \in 1..Len(ev.preSegments) : ev.preSegments[i].id # ev.arg)
         => segments = ev.preSegments

\* the first of two segments, which had an offset, got another pattern
\* while a polygon was in progress
C28_Witness ==
  /\ ev.op = "pattern"
  /\ Len(segments) = 2
  /\ segments[1].id = ev.arg
  /\ segments[1].ditherPattern # ev.preSegments[1].ditherPattern
  /\ segments[1].patternOffset # NoOffset
  /\ anchorPoints # <<>>

(***************************************************************************)
(* Claims about the uploaded documents (SpecUpload)                        *)
(***************************************************************************)
\* C29: after any sequence of uploads, selections, deletions and mode
\* switches a selected document is in the list of uploaded documents and
\* the mode is 'edit'; deleting the selected document clears the selection
\* and returns to 'create'; deleting another document leaves the selection
\* and the mode as they were.
C29_SelectionInListAndEdit ==
  /\ selectedSVG # NoSelection =>
       /\ \E i \in 1..Len(uploadedSVGs) : uploadedSVGs[i].id = selectedSVG
       /\ activeMode = "edit"
  /\ ev.op = "svg-delete" =>
       IF ev.arg.pre.selectedSVG = ev.arg.file
         THEN selectedSVG = NoSelection /\ activeMode = "create"
         ELSE /\ selectedSVG = ev.arg.pre.selectedSVG
              /\ activeMode = ev.arg.pre.activeMode

\* one of two documents was deleted while the other was selected
C29_Witness ==
  /\ ev.op = "svg-delete"
  /\ ev.arg.pre.selectedSVG # NoSelection
  /\ ev.arg.pre.selectedSVG # ev.arg.file
  /\ selectedSVG = ev.arg.pre.selectedSVG
  /\ Len(uploadedSVGs) = 1

(***************************************************************************)
(* Claims about exported documents read back by the editor (Spec)          *)
(***************************************************************************)
\* the segments a handler exports into the k-th document it generates
ExportedInto(k) ==
  CASE ev.op = "export-separate" -> <<segments[k]>>
    [] ev.op = "export-patterns" -> SelectSeq(segments, HasPattern)
    [] ev.op = "preview" /\ ev.arg = "patterns" -> SelectSeq(segments, HasPattern)
    [] OTHER -> segments

GeneratedDocs ==
  IF ev.op = "preview" THEN preview.svg
  ELSE [k \in 1..Len(saved) |-> saved[k].content]

\* C30: parseSVG applied to a document generateSVG produced yields exactly
\* one parsed path per exported segment, in export order, whose d is the
\* segment's path data and whose dataSegment is the segment id, together
\* with the export's width and height: no path of a tile definition is
\* reported as a segment path.
C30_ExportParsesBack ==
  ev.op \in ExportOps =>
    \A k \in 1..Len(GeneratedDocs) :
      LET parsed == parseSVG(GeneratedDocs[k])
          exported == ExportedInto(k)
      IN  /\ parsed.width = imageDimensions.width
          /\ parsed.height = imageDimensions.height
          /\ Len(parsed.paths) = Len(exported)
          /\ \A i \in 1..Len(exported) :
               /\ parsed.paths[i].d = exported[i].svgPath
               /\ parsed.paths[i].dataSegment = <<exported[i].id>>

\* an export of two segments with a dots tile was parsed back
C30_Witness ==
  /\ ev.op = "export-all"
  /\ Len(segments) = 2
  /\ \E i \in 1..Len(saved[1].content.defs) : saved[1].content.defs[i].id = "dots"
  /\ Len(parseSVG(saved[1].content).paths) = 2

====
